---------------------------- MODULE Spec2Model ----------------------------
(***************************************************************************)
(* Chord and Pastry overlays of Distributed_Hash_Table_CEID, with the      *)
(* per-peer LocalStorage (dict + B+ tree) and the NetworkSimulator hop     *)
(* counter.  Every client operation, join and leave is one atomic action   *)
(* (the in-memory bus runs handlers synchronously on the caller's thread); *)
(* the concurrent specification splits a lookup at the bus's lock.         *)
(***************************************************************************)
EXTENDS Integers, Sequences, FiniteSets, Bags, TLC

(***************************************************************************)
(* Bounds and program constants                                            *)
(***************************************************************************)
M == 3                 \* id bits (Chord.m, Pastry.m); ids are 0 .. 2^M - 1
B == 2                 \* Pastry digit bits (Pastry.b)
LEAF_HALF == 4         \* Pastry.LEAF_HALF
ORDER == 4             \* BPlusTree order used by LocalStorage
MaxBuildNodes == 2     \* longest node_ids list given to build
MaxItems == 1          \* longest initial item list given to build (client-call runs)
MaxChurnItems == 2     \* longest initial item list given to build (churn runs)
MaxLive == 3           \* joins are tried while fewer peers than this are live
MaxOps == 3            \* client calls after build
MaxChurn == 4          \* joins and leaves after build
NThreads == 2          \* worker threads of lookup_popularity_concurrent
MaxRepeat == 2         \* joins and leaves after build when both overlays run
MinRing == 6           \* fewest peers of the large rings built for routing
MaxRouteSteps == 2     \* calls after build in the routing runs
MaxNetCalls == 4       \* calls made on a NetworkSimulator of its own
MaxLocalOps == 5       \* calls made on a LocalStorage of its own
MaxUpdateLen == 1      \* longest list given to update on that LocalStorage
MaxConfigM == 2        \* largest m a DHT is constructed with in the configuration runs
MaxConfigB == 3        \* largest b a Pastry is constructed with in those runs
MaxConfigIds == 2      \* longest node-id list given to build in those runs
MaxFaultChurn == 3     \* joins and leaves after build over a failing transport
LeafBits == 4          \* id bits of the ring on which one leaf set is driven alone
MaxLeafCalls == 7      \* arrivals and departures that leaf set is told of

max_id == 2 ^ M
Ids == 0 .. (max_id - 1)
None == -1             \* Python None where an id (or a tree node) is expected
\* Python truthiness of an id-or-None: None and 0 are false
Truthy(x) == x /= None /\ x /= 0

PeerIds == {0, 3, max_id - 2}      \* ids offered to build / join / leave
JoinIds == PeerIds \cup {max_id + 3}   \* join/leave normalise mod 2^m
Keys == {"omega", "chi"}
Values == {"A", "B"}

\* SHA-1(key) mod 2^16, big-endian (hashlib.sha1(key).digest()).
Sha1Low16(key) ==
  CASE key = "omega" -> 4906
    [] key = "rho"   -> 6019
    [] key = "chi"   -> 43806
    [] OTHER         -> 0

\* hash_key(key, bits): the digest reduced mod 2^bits (bits <= 16 here).
hash_key(key, bits) == Sha1Low16(key) % (2 ^ bits)

\* Python's str "<" on the keys above.
KeysSorted ==
  <<"alpha", "beta", "chi", "delta", "eta", "gamma", "iota", "kappa", "mu",
    "omega", "psi", "rho", "sigma", "tau">>
KeyRank(k) == CHOOSE i \in 1 .. Len(KeysSorted) : KeysSorted[i] = k
KeyLt(a, b) == KeyRank(a) < KeyRank(b)

(***************************************************************************)
(* Sequence helpers (Python list operations)                               *)
(***************************************************************************)
Range(s) == {s[i] : i \in 1 .. Len(s)}
InSeq(x, s) == \E i \in 1 .. Len(s) : s[i] = x
\* list.index(x): first position (1-based here)
IndexOf(s, x) == CHOOSE i \in 1 .. Len(s) : s[i] = x /\ \A j \in 1 .. (i - 1) : s[j] /= x
\* list.insert(pos, x) with a 0-based pos
InsertAt(s, pos, x) == SubSeq(s, 1, pos) \o <<x>> \o SubSeq(s, pos + 1, Len(s))
\* list.pop(idx) with a 1-based idx
RemoveAt(s, idx) == SubSeq(s, 1, idx - 1) \o SubSeq(s, idx + 1, Len(s))
\* list.remove(x): drops the first occurrence
RemoveFirst(s, x) == IF InSeq(x, s) THEN RemoveAt(s, IndexOf(s, x)) ELSE s
\* every ordering of a finite set (iteration order of a Python set)
SetOrders(S) ==
  {o \in [1 .. Cardinality(S) -> S] : \A i, j \in 1 .. Cardinality(S) : i /= j => o[i] /= o[j]}
\* sequences of distinct elements of S of length lo .. hi
DistinctSeqs(S, lo, hi) ==
  UNION {{o \in [1 .. n -> S] : \A i, j \in 1 .. n : i /= j => o[i] /= o[j]} : n \in lo .. hi}
SeqsUpTo(S, hi) == UNION {[1 .. n -> S] : n \in 0 .. hi}

(***************************************************************************)
(* B+ tree (local_index.py).  A tree is [root, nodes]; nodes is the heap   *)
(* of BPlusTreeNode objects, addressed 1 .. Len(nodes); 0 is None.         *)
(***************************************************************************)
BPlusTreeNode(leaf) ==
  [is_leaf |-> leaf, keys |-> <<>>, children |-> <<>>, values |-> <<>>,
   next_leaf |-> 0, parent |-> 0]

BPlusTree == [root |-> 1, nodes |-> <<BPlusTreeNode(TRUE)>>]

\* _find_child_index / _find_insert_position: first i with key < keys[i], else len
_find_child_index(keys, key) ==
  IF \E i \in 1 .. Len(keys) : KeyLt(key, keys[i])
  THEN (CHOOSE i \in 1 .. Len(keys) :
          KeyLt(key, keys[i]) /\ \A j \in 1 .. (i - 1) : ~KeyLt(key, keys[j])) - 1
  ELSE Len(keys)

_find_insert_position(keys, key) == _find_child_index(keys, key)

RECURSIVE FindLeafFrom(_, _, _)
FindLeafFrom(t, n, key) ==
  IF t.nodes[n].is_leaf THEN n
  ELSE FindLeafFrom(t, t.nodes[n].children[_find_child_index(t.nodes[n].keys, key) + 1], key)

_find_leaf(t, key) == FindLeafFrom(t, t.root, key)

\* BPlusTree.search
search(t, key) ==
  LET leaf == t.nodes[_find_leaf(t, key)]
  IN  IF InSeq(key, leaf.keys) THEN leaf.values[IndexOf(leaf.keys, key)] ELSE <<>>

\* set parent of every node in cs to p
SetParents(nodes, cs, p) ==
  [i \in 1 .. Len(nodes) |-> IF InSeq(i, cs) THEN [nodes[i] EXCEPT !.parent = p] ELSE nodes[i]]

RECURSIVE _insert_in_parent(_, _, _, _)
RECURSIVE _split_internal(_, _)

_split_internal(t, n) ==
  LET node == t.nodes[n]
      mid == Len(node.keys) \div 2
      promote_key == node.keys[mid + 1]
      new_id == Len(t.nodes) + 1
      new_node == [BPlusTreeNode(FALSE) EXCEPT
                     !.keys = SubSeq(node.keys, mid + 2, Len(node.keys)),
                     !.children = SubSeq(node.children, mid + 2, Len(node.children)),
                     !.parent = node.parent]
      nodes1 == SetParents(Append(t.nodes, new_node), new_node.children, new_id)
      nodes2 == [nodes1 EXCEPT ![n].keys = SubSeq(node.keys, 1, mid),
                               ![n].children = SubSeq(node.children, 1, mid + 1)]
  IN  _insert_in_parent([t EXCEPT !.nodes = nodes2], n, promote_key, new_id)

_insert_in_parent(t, left, key, right) ==
  IF t.nodes[left].parent = 0
  THEN LET new_id == Len(t.nodes) + 1
           new_root == [BPlusTreeNode(FALSE) EXCEPT !.keys = <<key>>,
                                                    !.children = <<left, right>>]
           nodes1 == Append(t.nodes, new_root)
       IN  [root |-> new_id,
            nodes |-> [nodes1 EXCEPT ![left].parent = new_id, ![right].parent = new_id]]
  ELSE LET p == t.nodes[left].parent
           idx == _find_insert_position(t.nodes[p].keys, key)
           t1 == [t EXCEPT !.nodes[p].keys = InsertAt(@, idx, key),
                           !.nodes[p].children = InsertAt(@, idx + 1, right)]
       IN  IF Len(t1.nodes[p].keys) >= ORDER THEN _split_internal(t1, p) ELSE t1

\* a split that leaves the old leaf pointing past the new one
_split_leaf_unlinked(t, l) ==
  LET leaf == t.nodes[l]
      mid == Len(leaf.keys) \div 2
      new_id == Len(t.nodes) + 1
      new_leaf == [BPlusTreeNode(TRUE) EXCEPT
                     !.keys = SubSeq(leaf.keys, mid + 1, Len(leaf.keys)),
                     !.values = SubSeq(leaf.values, mid + 1, Len(leaf.values)),
                     !.next_leaf = leaf.next_leaf,
                     !.parent = leaf.parent]
      nodes1 == [Append(t.nodes, new_leaf) EXCEPT
                   ![l].keys = SubSeq(leaf.keys, 1, mid),
                   ![l].values = SubSeq(leaf.values, 1, mid)]
  IN  _insert_in_parent([t EXCEPT !.nodes = nodes1], l, new_leaf.keys[1], new_id)

_split_leaf(t, l) ==
  LET leaf == t.nodes[l]
      mid == Len(leaf.keys) \div 2
      new_id == Len(t.nodes) + 1
      new_leaf == [BPlusTreeNode(TRUE) EXCEPT
                     !.keys = SubSeq(leaf.keys, mid + 1, Len(leaf.keys)),
                     !.values = SubSeq(leaf.values, mid + 1, Len(leaf.values)),
                     !.next_leaf = leaf.next_leaf,
                     !.parent = leaf.parent]
      nodes1 == [Append(t.nodes, new_leaf) EXCEPT
                   ![l].keys = SubSeq(leaf.keys, 1, mid),
                   ![l].values = SubSeq(leaf.values, 1, mid),
                   ![l].next_leaf = new_id]
  IN  _insert_in_parent([t EXCEPT !.nodes = nodes1], l, new_leaf.keys[1], new_id)

\* BPlusTree.insert
BtInsert(t, key, value) ==
  LET l == _find_leaf(t, key)
      leaf == t.nodes[l]
  IN  IF InSeq(key, leaf.keys)
      THEN [t EXCEPT !.nodes[l].values[IndexOf(leaf.keys, key)] = Append(@, value)]
      ELSE LET idx == _find_insert_position(leaf.keys, key)
               t1 == [t EXCEPT !.nodes[l].keys = InsertAt(@, idx, key),
                               !.nodes[l].values = InsertAt(@, idx, <<value>>)]
           IN  IF Len(t1.nodes[l].keys) >= ORDER THEN _split_leaf(t1, l) ELSE t1

\* BPlusTree.delete(key) with value=None: the whole key goes
BtDelete(t, key) ==
  LET l == _find_leaf(t, key)
      leaf == t.nodes[l]
  IN  IF ~InSeq(key, leaf.keys) THEN t
      ELSE LET idx == IndexOf(leaf.keys, key)
           IN  [t EXCEPT !.nodes[l].keys = RemoveAt(@, idx),
                         !.nodes[l].values = RemoveAt(@, idx)]

\* BPlusTree.delete(key, value): the first occurrence of value goes, and the
\* key with it when no value is left
BtDeleteValue(t, key, value) ==
  LET l == _find_leaf(t, key)
      leaf == t.nodes[l]
  IN  IF ~InSeq(key, leaf.keys) THEN t
      ELSE LET idx == IndexOf(leaf.keys, key)
           IN  IF ~InSeq(value, leaf.values[idx]) THEN t
               ELSE IF RemoveFirst(leaf.values[idx], value) = <<>>
               THEN [t EXCEPT !.nodes[l].keys = RemoveAt(@, idx),
                              !.nodes[l].values = RemoveAt(@, idx)]
               ELSE [t EXCEPT !.nodes[l].values[idx] = RemoveFirst(@, value)]

BtHas(t, key) == InSeq(key, t.nodes[_find_leaf(t, key)].keys)

\* overwrite the value list stored for a key that is present
BtSetValues(t, key, vals) ==
  LET l == _find_leaf(t, key)
  IN  [t EXCEPT !.nodes[l].values[IndexOf(t.nodes[l].keys, key)] = vals]

RECURSIVE BtInsertAll(_, _, _)
BtInsertAll(t, key, vals) ==
  IF vals = <<>> THEN t ELSE BtInsertAll(BtInsert(t, key, Head(vals)), key, Tail(vals))

\* BPlusTree.update: replace the list of a present key, else insert each value
BtUpdate(t, key, new_values) ==
  IF BtHas(t, key) THEN BtSetValues(t, key, new_values)
  ELSE BtInsertAll(t, key, new_values)

RECURSIVE LeftmostLeaf(_, _)
LeftmostLeaf(t, n) ==
  IF t.nodes[n].is_leaf THEN n ELSE LeftmostLeaf(t, t.nodes[n].children[1])

RECURSIVE LeafChainKeys(_, _)
LeafChainKeys(t, n) ==
  IF n = 0 THEN <<>> ELSE t.nodes[n].keys \o LeafChainKeys(t, t.nodes[n].next_leaf)

\* BPlusTree.get_all_keys
BtGetAllKeys(t) == LeafChainKeys(t, LeftmostLeaf(t, t.root))

(***************************************************************************)
(* LocalStorage (local_index.py): data is the dict (insertion ordered, a   *)
(* sequence of <<key, list>>), btree the B+ tree, and alias the keys whose *)
(* dict list and tree list are one Python list object (update stores the   *)
(* caller's list in both), so that an append through either shows in both. *)
(***************************************************************************)
LocalStorage == [data |-> <<>>, btree |-> BPlusTree, alias |-> {}]

DataKeys(s) == [i \in 1 .. Len(s.data) |-> s.data[i][1]]
DataHas(s, key) == \E i \in 1 .. Len(s.data) : s.data[i][1] = key
DataIdx(s, key) == CHOOSE i \in 1 .. Len(s.data) : s.data[i][1] = key
DataGet(s, key) == IF DataHas(s, key) THEN s.data[DataIdx(s, key)][2] ELSE <<>>
\* self.data[key] = vals: a present key keeps its place, a new key goes last
DataSet(s, key, vals) ==
  IF DataHas(s, key) THEN [s EXCEPT !.data[DataIdx(s, key)] = <<key, vals>>]
  ELSE [s EXCEPT !.data = Append(@, <<key, vals>>)]

\* LocalStorage.get: the tree answers
LsGet(s, key) == search(s.btree, key)

\* self.data[key].append(value)
DataAppend(s, key, value) ==
  LET s1 == DataSet(s, key, Append(DataGet(s, key), value))
  IN  IF key \in s.alias
      THEN [s1 EXCEPT !.btree = BtSetValues(@, key, DataGet(s1, key))]
      ELSE s1

\* self.btree.insert(key, value)
TreeAppend(s, key, value) ==
  LET s1 == [s EXCEPT !.btree = BtInsert(@, key, value)]
  IN  IF key \in s.alias
      THEN DataSet(s1, key, search(s1.btree, key))
      ELSE s1

\* LocalStorage.put
LsPut(s, key, value) ==
  LET s0 == IF DataHas(s, key) THEN s ELSE DataSet(s, key, <<>>)
  IN  TreeAppend(DataAppend(s0, key, value), key, value)

\* LocalStorage.delete
LsDelete(s, key) ==
  [data  |-> IF DataHas(s, key) THEN RemoveAt(s.data, DataIdx(s, key)) ELSE s.data,
   btree |-> BtDelete(s.btree, key),
   alias |-> s.alias \ {key}]

\* LocalStorage.update
LsUpdate(s, key, values) ==
  LET s1 == DataSet(s, key, values)
  IN  IF BtHas(s.btree, key)
      THEN [s1 EXCEPT !.btree = BtSetValues(@, key, values), !.alias = @ \cup {key}]
      ELSE [s1 EXCEPT !.btree = BtInsertAll(@, key, values), !.alias = @ \ {key}]

\* LocalStorage.get_all_keys / get_all_items: the dict answers
LsGetAllKeys(s) == DataKeys(s)
LsGetAllItems(s) == s.data

RECURSIVE LsPutAll(_, _, _)
\* for value in values: storage.put(key, value)
LsPutAll(s, key, values) ==
  IF values = <<>> THEN s ELSE LsPutAll(LsPut(s, key, Head(values)), key, Tail(values))

\* the store-op branch of ChordNode.handle_message / Pastry._handle_message
StoreHandle(s, op, key, value) ==
  CASE op = "lookup" -> [store |-> s, res |-> LsGet(s, key)]
    [] op = "insert" -> [store |-> LsPut(s, key, value), res |-> <<>>]
    [] op = "delete" -> [store |-> LsDelete(s, key), res |-> <<>>]
    [] op = "update" -> [store |-> LsUpdate(s, key, value), res |-> <<>>]

(***************************************************************************)
(* NetworkSimulator (network.py): total_hops grows by one per send made    *)
(* with count_hop; the handler then runs on the caller's thread.           *)
(***************************************************************************)
\* a counter that grows with every send
NetSend_always(total_hops, count_hop) == total_hops + 1

\* NetworkSimulator.send: what it does to total_hops for a registered destination
NetSend(total_hops, count_hop) == IF count_hop THEN total_hops + 1 ELSE total_hops

\* NetworkSimulator.__init__; nodes maps a node id to its handler
NetworkSimulator == [nodes |-> [x \in {} |-> ""], total_hops |-> 0, message_count |-> 0]

\* NetworkSimulator.register_node
register_node(net, node_id, handler) ==
  [net EXCEPT !.nodes = [y \in (DOMAIN @) \cup {node_id} |->
                           IF y = node_id THEN handler ELSE @[y]]]

\* NetworkSimulator.unregister_node
unregister_node(net, node_id) ==
  [net EXCEPT !.nodes = [y \in (DOMAIN @) \ {node_id} |-> @[y]]]

\* what a registered handler returns for a message: the handler and the
\* message it was given
Handle(handler, msg) == [by |-> handler, msg |-> msg]

\* NetworkSimulator.send: [net, raised, reply]
send(net, msg, count_hop) ==
  IF msg.dst_id \notin DOMAIN net.nodes
  THEN [net |-> net, raised |-> "ValueError", reply |-> [by |-> "", msg |-> msg]]
  ELSE [net |-> [net EXCEPT !.total_hops = NetSend(@, count_hop),
                            !.message_count = IF count_hop THEN @ + 1 ELSE @],
        raised |-> "",
        reply |-> Handle(net.nodes[msg.dst_id], msg)]

\* NetworkSimulator.reset_counters
reset_counters(net) == [net EXCEPT !.total_hops = 0, !.message_count = 0]

\* NetworkSimulator.get_stats()['total_hops'] and ['message_count']
get_stats(net) == [total_hops |-> net.total_hops, message_count |-> net.message_count]

EmptyFn == [x \in {} |-> None]
Without(f, x) == [y \in (DOMAIN f) \ {x} |-> f[y]]
SetMax(S) == CHOOSE x \in S : \A y \in S : y <= x
SetMin(S) == CHOOSE x \in S : \A y \in S : x <= y

\* sorted(ids)
RECURSIVE SortedSeq(_)
SortedSeq(S) == IF S = {} THEN <<>> ELSE <<SetMin(S)>> \o SortedSeq(S \ {SetMin(S)})

(***************************************************************************)
(* Chord (chord.py).  A ring value ch is                                   *)
(*   nodes  : Chord.nodes keys in dict order                               *)
(*   succ, pred, finger, store : the fields of each ChordNode              *)
(*   reg    : ids with a handler in the NetworkSimulator                   *)
(*   hops   : NetworkSimulator.total_hops                                  *)
(***************************************************************************)
ChordInit ==
  [nodes |-> <<>>, succ |-> EmptyFn, pred |-> EmptyFn, finger |-> EmptyFn,
   store |-> EmptyFn, reg |-> {}, hops |-> 0]

\* a range test that compares start and end without wrapping past id 0
_in_range_nowrap(val, start, end, inclusive_start, inclusive_end) ==
  IF start = end THEN inclusive_start \/ inclusive_end
  ELSE /\ (start < val \/ (inclusive_start /\ start = val))
       /\ (val < end \/ (inclusive_end /\ val = end))

\* ChordNode._in_range
_in_range(val, start, end, inclusive_start, inclusive_end) ==
  IF start = end THEN inclusive_start \/ inclusive_end
  ELSE IF start < end
  THEN CASE inclusive_start /\ inclusive_end -> start <= val /\ val <= end
         [] inclusive_start /\ ~inclusive_end -> start <= val /\ val < end
         [] ~inclusive_start /\ inclusive_end -> start < val /\ val <= end
         [] OTHER -> start < val /\ val < end
  ELSE CASE inclusive_start /\ inclusive_end -> val >= start \/ val <= end
         [] inclusive_start /\ ~inclusive_end -> val >= start \/ val < end
         [] ~inclusive_start /\ inclusive_end -> val > start \/ val <= end
         [] OTHER -> val > start \/ val < end

\* FingerEntry.start of finger k of node n (ChordNode.__init__)
FingerStart(n, k) == (n + 2 ^ k) % max_id

\* ChordNode.__init__: no successor, no predecessor, empty fingers, empty storage
ChordNodeNew(ch, n) ==
  [ch EXCEPT !.succ = Without(@, n) @@ (n :> None),
             !.pred = Without(@, n) @@ (n :> None),
             !.finger = Without(@, n) @@ (n :> [k \in 0 .. (M - 1) |-> None]),
             !.store = Without(@, n) @@ (n :> LocalStorage),
             !.reg = @ \cup {n}]

\* a scan that takes the first qualifying finger from 0 up (shortest jump)
_closest_preceding_node_shortest(ch, n, target_id) ==
  LET hit == {i \in 0 .. (M - 1) :
                /\ ch.finger[n][i] /= None
                /\ _in_range(ch.finger[n][i], n, target_id, FALSE, FALSE)}
  IN  IF hit = {} THEN n ELSE ch.finger[n][SetMin(hit)]

\* ChordNode._closest_preceding_node: fingers scanned from m-1 down to 0
_closest_preceding_node(ch, n, target_id) ==
  LET hit == {i \in 0 .. (M - 1) :
                /\ ch.finger[n][i] /= None
                /\ _in_range(ch.finger[n][i], n, target_id, FALSE, FALSE)}
  IN  IF hit = {} THEN n ELSE ch.finger[n][SetMax(hit)]

\* the forward at the end of _find_successor_handler: network.send(msg), counted
ChordForwardSend(total_hops) == NetSend(total_hops, TRUE)

\* ChordNode._find_successor_handler at node n; path lists the peers that
\* handled the request so far (n last).  A chain longer than the id space
\* never returns (owner None).
RECURSIVE _find_successor_handler(_, _, _, _, _)
_find_successor_handler(ch, n, target_id, total_hops, path) ==
  IF Len(path) > max_id + 1
  THEN [owner |-> None, hops |-> total_hops, path |-> path]
  ELSE IF _in_range(target_id, n, ch.succ[n], FALSE, TRUE)
  THEN [owner |-> ch.succ[n], hops |-> total_hops, path |-> path]
  ELSE LET closest == _closest_preceding_node(ch, n, target_id)
       IN  IF closest = n
           THEN [owner |-> ch.succ[n], hops |-> total_hops, path |-> path]
           ELSE _find_successor_handler(ch, closest, target_id,
                                        ChordForwardSend(total_hops),
                                        Append(path, closest))

\* Chord._find_successor: a find_successor message sent to the source itself,
\* with count_hop left at its default (True)
Chord_find_successor(ch, target_id, source_node) ==
  _find_successor_handler(ch, source_node, target_id,
                          NetSend(ch.hops, TRUE), <<source_node>>)

\* the terminal store-op message of lookup/insert/delete/update: count_hop=False
ChordStoreSend(total_hops) == NetSend(total_hops, FALSE)

\* the store-op at the owner r.owner and the value the call returns; the
\* result carries, for the properties, the owner, the routing path and the reply
ClientOpDone(ch, r, h) ==
  [ch |-> [ch EXCEPT !.hops = ChordStoreSend(r.hops), !.store[r.owner] = h.store],
   hops |-> ChordStoreSend(r.hops), owner |-> r.owner, path |-> r.path, res |-> h.res]

ClientOpAt(ch, op, key, value, r) ==
  ClientOpDone(ch, r, StoreHandle(ch.store[r.owner], op, key, value))

ClientOpFrom(ch, op, key, value, src) ==
  ClientOpAt(ch, op, key, value, Chord_find_successor(ch, hash_key(key, M), src))

\* Chord.lookup / insert / delete / update.  source_node None is the default.
ChordClientOp(ch, op, key, value, source_node) ==
  IF ch.nodes = <<>>
  THEN [ch |-> ch, hops |-> 0, owner |-> None, path |-> <<>>, res |-> <<>>]
  ELSE ClientOpFrom([ch EXCEPT !.hops = 0], op, key, value,
                    IF source_node = None THEN ch.nodes[1] ELSE source_node)

\* ChordNode.find_successor at node n: the node answers itself or sends the
\* first find_successor message; path lists n and the peers that handled it
NodeFindSuccessor(ch, n, target_id, closest) ==
  IF Truthy(ch.succ[n]) /\ _in_range(target_id, n, ch.succ[n], FALSE, TRUE)
  THEN [owner |-> ch.succ[n], hops |-> ch.hops, path |-> <<n>>]
  ELSE IF closest = n
  THEN [owner |-> IF Truthy(ch.succ[n]) THEN ch.succ[n] ELSE n,
        hops |-> ch.hops, path |-> <<n>>]
  ELSE _find_successor_handler(ch, closest, target_id, ChordForwardSend(ch.hops),
                               <<n, closest>>)

\* ChordNode.lookup once the responsible node is known: the lookup message
\* (not counted) and get_stats
NodeLookupAt(ch, key, r) ==
  [ch |-> [ch EXCEPT !.hops = ChordStoreSend(r.hops)],
   values |-> LsGet(ch.store[r.owner], key),
   hops |-> ChordStoreSend(r.hops), owner |-> r.owner, path |-> r.path]

NodeLookupFrom(ch, n, key, target_id) ==
  NodeLookupAt(ch, key,
               NodeFindSuccessor(ch, n, target_id, _closest_preceding_node(ch, n, target_id)))

\* ChordNode.lookup at node n on the shared NetworkSimulator
ChordNodeLookup(ch, n, key) ==
  NodeLookupFrom([ch EXCEPT !.hops = 0], n, key, hash_key(key, M))

\* the counters of the node servers' DistributedNetwork objects after a
\* lookup at node n that went along path: n's counter is reset, and every
\* peer that sent a find_successor message counted it on its own object
HttpCounters(counters, n, path) ==
  [x \in DOMAIN counters |->
     (IF x = n THEN 0 ELSE counters[x])
       + Cardinality({i \in 1 .. (Len(path) - 1) : path[i] = x})]

\* ChordNode.lookup at node n when every node server has its own
\* DistributedNetwork: the same routing, hops read from n's own counter
HttpNodeLookupAt(counters, n, r) ==
  [counters |-> HttpCounters(counters, n, r.path),
   values |-> r.values, hops |-> HttpCounters(counters, n, r.path)[n],
   owner |-> r.owner, path |-> r.path]

HttpNodeLookup(ch, counters, n, key) ==
  HttpNodeLookupAt(counters, n, ChordNodeLookup(ch, n, key))

\* Chord._find_successor_static
_find_successor_static(target_id, sorted_nodes) ==
  IF \E i \in 1 .. Len(sorted_nodes) : sorted_nodes[i] >= target_id
  THEN sorted_nodes[CHOOSE i \in 1 .. Len(sorted_nodes) :
                      /\ sorted_nodes[i] >= target_id
                      /\ \A j \in 1 .. (i - 1) : sorted_nodes[j] < target_id]
  ELSE sorted_nodes[1]

\* Chord._rebuild_fingers (and the finger loop of build)
_rebuild_fingers(ch) ==
  LET sorted_nodes == SortedSeq(Range(ch.nodes))
  IN  [ch EXCEPT !.finger =
         [n \in Range(ch.nodes) |->
            [k \in 0 .. (M - 1) |-> _find_successor_static(FingerStart(n, k), sorted_nodes)]]]

RECURSIVE ChordInsertItems(_, _)
\* for key, value in items: self.insert(key, value)
ChordInsertItems(ch, items) ==
  IF items = <<>> THEN ch
  ELSE ChordInsertItems(ChordClientOp(ch, "insert", Head(items)[1], Head(items)[2], None).ch,
                        Tail(items))

RECURSIVE ChordCreateNodes(_, _)
\* for nid in node_ids: self.nodes[nid % max_id] = ChordNode(nid % max_id, ...)
ChordCreateNodes(ch, node_ids) ==
  IF node_ids = <<>> THEN ch
  ELSE LET n == Head(node_ids) % max_id
           ch1 == ChordNodeNew(ch, n)
           ch2 == IF InSeq(n, ch.nodes) THEN ch1 ELSE [ch1 EXCEPT !.nodes = Append(@, n)]
       IN  ChordCreateNodes(ch2, Tail(node_ids))

\* Chord.build: successor and predecessor of every peer from the sorted ids
BuildRing(ch, sorted_nodes) ==
  [ch EXCEPT
     !.succ = [x \in Range(ch.nodes) |->
                 sorted_nodes[(IndexOf(sorted_nodes, x) % Len(sorted_nodes)) + 1]],
     !.pred = [x \in Range(ch.nodes) |->
                 sorted_nodes[((IndexOf(sorted_nodes, x) - 2) % Len(sorted_nodes)) + 1]]]

BuildSorted(ch) == BuildRing(ch, SortedSeq(Range(ch.nodes)))

\* Chord.build (node_ids non-empty)
ChordBuild(ch, node_ids, items) ==
  ChordInsertItems(_rebuild_fingers(BuildSorted(ChordCreateNodes(ch, node_ids))), items)

\* the keys ChordNode._transfer_keys hands over: those of get_all_keys() whose
\* id lies in (start, end]
TransferKeys(s, start, end) ==
  SelectSeq(LsGetAllKeys(s), LAMBDA k : _in_range(hash_key(k, M), start, end, FALSE, TRUE))

RECURSIVE LsDeleteAll(_, _)
LsDeleteAll(s, keys) ==
  IF keys = <<>> THEN s ELSE LsDeleteAll(LsDelete(s, Head(keys)), Tail(keys))

\* a hand-over that leaves the handed-over keys on the donor as well
_transfer_keys_keeping(s, start, end) ==
  LET ks == TransferKeys(s, start, end)
  IN  [items |-> [i \in 1 .. Len(ks) |-> <<ks[i], LsGet(s, ks[i])>>],
       store |-> s]

\* ChordNode._transfer_keys: the items handed over and the storage left behind
_transfer_keys(s, start, end) ==
  LET ks == TransferKeys(s, start, end)
  IN  [items |-> [i \in 1 .. Len(ks) |-> <<ks[i], LsGet(s, ks[i])>>],
       store |-> LsDeleteAll(s, ks)]

RECURSIVE LsPutItems(_, _)
\* for key, values in items: for value in values: storage.put(key, value)
LsPutItems(s, items) ==
  IF items = <<>> THEN s
  ELSE LsPutItems(LsPutAll(s, Head(items)[1], Head(items)[2]), Tail(items))

\* Chord.join, first peer of an empty ring: it is its own successor and predecessor
JoinFirst(ch, new_node_id) ==
  [ch |-> [ch EXCEPT !.succ[new_node_id] = new_node_id,
                     !.pred[new_node_id] = new_node_id,
                     !.nodes = <<new_node_id>>],
   hops |-> 0]

\* a join that links the new peer but leaves its predecessor's successor alone
JoinLink_oneway(ch, new_node_id, successor, predecessor, total_hops) ==
  [ch EXCEPT !.hops = NetSend(total_hops, FALSE),
             !.succ = [@ EXCEPT ![new_node_id] = successor],
             !.pred = [@ EXCEPT ![new_node_id] = predecessor, ![successor] = new_node_id],
             !.nodes = Append(@, new_node_id)]

\* Chord.join: the get_predecessor message (not counted), the pointers of the
\* new peer and of its two neighbours, self.nodes[new_node_id] = new_node
JoinLink(ch, new_node_id, successor, predecessor, total_hops) ==
  [ch EXCEPT !.hops = NetSend(total_hops, FALSE),
             !.succ = [@ EXCEPT ![new_node_id] = successor, ![predecessor] = new_node_id],
             !.pred = [@ EXCEPT ![new_node_id] = predecessor, ![successor] = new_node_id],
             !.nodes = Append(@, new_node_id)]

\* a join whose new peer stores only the first value of every key handed over
JoinStore_first(ch, new_node_id, successor, t) ==
  [ch EXCEPT !.hops = NetSend(@, FALSE),
             !.store = [@ EXCEPT ![successor] = t.store,
                                 ![new_node_id] =
                                   LsPutItems(@, [i \in 1 .. Len(t.items) |->
                                                    <<t.items[i][1], <<t.items[i][2][1]>>>>])]]

\* Chord.join: the transfer_keys message (not counted) and the puts at the new peer
JoinStore(ch, new_node_id, successor, t) ==
  [ch EXCEPT !.hops = NetSend(@, FALSE),
             !.store = [@ EXCEPT ![successor] = t.store,
                                 ![new_node_id] = LsPutItems(@, t.items)]]

\* Chord.join: _rebuild_fingers(), then the keys of (predecessor, new_node_id]
\* move from the successor to the new peer
JoinTransfer(ch, new_node_id, successor, predecessor) ==
  JoinStore(ch, new_node_id, successor,
            _transfer_keys(ch.store[successor], predecessor, new_node_id))

\* Chord.join from get_predecessor to _rebuild_fingers(), the successor r.owner known
JoinLinked(ch, new_node_id, r) ==
  _rebuild_fingers(JoinLink(ch, new_node_id, r.owner, ch.pred[r.owner], r.hops))

\* Chord.join once the successor r.owner is known
JoinAt(ch, new_node_id, r) ==
  JoinTransfer(JoinLinked(ch, new_node_id, r), new_node_id, r.owner, ch.pred[r.owner])

\* Chord.join into a ring that has peers: successor found from the first peer
JoinRing(ch, new_node_id, arbitrary_node) ==
  JoinAt(ch, new_node_id, Chord_find_successor(ch, new_node_id, arbitrary_node))

\* the value a join or leave returns: get_stats()['total_hops']
WithHops(ch) == [ch |-> ch, hops |-> ch.hops]

\* Chord.join: [ch, hops]
ChordJoin(ch, new_node_input) ==
  LET new_node_id == new_node_input % max_id
  IN  IF InSeq(new_node_id, ch.nodes) THEN [ch |-> ch, hops |-> 0]
      ELSE IF ch.nodes = <<>>
      THEN JoinFirst(ChordNodeNew([ch EXCEPT !.hops = 0], new_node_id), new_node_id)
      ELSE WithHops(JoinRing(ChordNodeNew([ch EXCEPT !.hops = 0], new_node_id),
                             new_node_id, ch.nodes[1]))

\* Chord.leave, graceful part: every item of the departing peer is put at its successor
LeaveHandOver(ch, node_id, graceful) ==
  IF graceful
  THEN [ch EXCEPT !.store[ch.succ[node_id]] = LsPutItems(@, LsGetAllItems(ch.store[node_id]))]
  ELSE ch

\* Chord.leave: predecessor and successor are linked to each other
LeaveRelink(ch, node_id, succ_id, pred_id) ==
  [ch EXCEPT !.succ = IF InSeq(pred_id, ch.nodes) THEN [@ EXCEPT ![pred_id] = succ_id] ELSE @,
             !.pred = IF InSeq(succ_id, ch.nodes) THEN [@ EXCEPT ![succ_id] = pred_id] ELSE @]

\* Chord.leave: unregister_node and del self.nodes[node_id]
LeaveRemove(ch, node_id) ==
  [nodes  |-> RemoveFirst(ch.nodes, node_id),
   succ   |-> Without(ch.succ, node_id),
   pred   |-> Without(ch.pred, node_id),
   finger |-> Without(ch.finger, node_id),
   store  |-> Without(ch.store, node_id),
   reg    |-> ch.reg \ {node_id},
   hops   |-> ch.hops]

\* Chord.leave: if self.nodes: self._rebuild_fingers()
LeaveRebuild(ch) == IF ch.nodes /= <<>> THEN _rebuild_fingers(ch) ELSE ch

\* a graceful leave of a peer that is its own successor puts every value back
\* into the list it is iterating, which grows under the iteration
LeaveHangs(ch, node_id, graceful) ==
  /\ graceful
  /\ ch.succ[node_id] = node_id
  /\ \E i \in 1 .. Len(ch.store[node_id].data) : ch.store[node_id].data[i][2] /= <<>>

\* Chord.leave: stats = get_stats(); return stats['total_hops']
LeaveDone(ch) == [ch |-> ch, hops |-> ch.hops, hung |-> FALSE]

\* Chord.leave: [ch, hops, hung]; hung when the call does not return
ChordLeave(ch, node_input, graceful) ==
  LET node_id == node_input % max_id
  IN  IF ~InSeq(node_id, ch.nodes) THEN [ch |-> ch, hops |-> 0, hung |-> FALSE]
      ELSE IF LeaveHangs(ch, node_id, graceful)
      THEN [ch |-> [ch EXCEPT !.hops = 0], hops |-> 0, hung |-> TRUE]
      ELSE LeaveDone(LeaveRebuild(LeaveRemove(
             LeaveRelink(LeaveHandOver([ch EXCEPT !.hops = 0], node_id, graceful),
                         node_id, ch.succ[node_id], ch.pred[node_id]),
             node_id)))

(***************************************************************************)
(* Pastry (pastry.py).  A network value pa is                              *)
(*   nodes  : Pastry.nodes keys in dict order                              *)
(*   leaf_smaller, leaf_larger, rt, store : the fields of each PastryNode  *)
(*   reg    : ids with a handler in the NetworkSimulator                   *)
(*   hops   : NetworkSimulator.total_hops                                  *)
(***************************************************************************)
base == 2 ^ B
num_digits == (M + B - 1) \div B

PastryInit ==
  [nodes |-> <<>>, leaf_smaller |-> EmptyFn, leaf_larger |-> EmptyFn, rt |-> EmptyFn,
   store |-> EmptyFn, reg |-> {}, hops |-> 0]

\* Pastry._to_digits: digit i (0-based, most significant first) of node_id
Digit(node_id, i) ==
  LET shift == M - (i + 1) * B
  IN  IF shift < 0
      THEN (IF B + shift > 0 THEN node_id % (2 ^ (B + shift)) ELSE 0)
      ELSE (node_id \div (2 ^ shift)) % (2 ^ B)

_to_digits(node_id) == [i \in 1 .. num_digits |-> Digit(node_id, i - 1)]

\* Pastry._shared_prefix_length
_shared_prefix_length(id1, id2) ==
  LET d1 == _to_digits(id1)
      d2 == _to_digits(id2)
      diff == {i \in 1 .. num_digits : d1[i] /= d2[i]}
  IN  IF diff = {} THEN num_digits ELSE SetMin(diff) - 1

\* Pastry._get_digit (position 0-based)
_get_digit(node_id, position) ==
  IF position < num_digits THEN _to_digits(node_id)[position + 1] ELSE 0

\* Pastry._circular_distance
_circular_distance(a, b) ==
  LET diff == IF a >= b THEN a - b ELSE b - a
  IN  IF diff <= max_id - diff THEN diff ELSE max_id - diff

\* a plain min/max test that takes no account of the wrap at id 0
_circular_between_minmax(x, lo, hi) ==
  (IF lo <= hi THEN lo ELSE hi) <= x /\ x <= (IF lo <= hi THEN hi ELSE lo)

\* Pastry._circular_between
_circular_between(x, lo, hi) ==
  IF lo <= hi THEN lo <= x /\ x <= hi ELSE x >= lo \/ x <= hi

\* Pastry._find_closest_in: min over (distance, id); None for no candidates
_find_closest_in(key, candidates) ==
  IF candidates = <<>> THEN None
  ELSE CHOOSE n \in Range(candidates) : \A o \in Range(candidates) :
         \/ _circular_distance(key, n) < _circular_distance(key, o)
         \/ (_circular_distance(key, n) = _circular_distance(key, o) /\ n <= o)

\* PastryNode.leaf_set
leaf_set(pa, n) == pa.leaf_smaller[n] \o pa.leaf_larger[n]

\* node.leaf_smaller[-1] / node.leaf_larger[-1] if the half has entries, else node_id
LastOr(half, n) == IF half /= <<>> THEN half[Len(half)] ELSE n

_leaf_set_min(pa, n) == LastOr(pa.leaf_smaller[n], n)

_leaf_set_max(pa, n) == LastOr(pa.leaf_larger[n], n)

\* Pastry._is_in_leaf_set_range on the two halves of peer n
LeafRangeHas(smaller, larger, n, key) ==
  IF smaller = <<>> /\ larger = <<>> THEN TRUE
  ELSE _circular_between(key, LastOr(smaller, n), LastOr(larger, n))

\* Pastry._is_in_leaf_set_range
_is_in_leaf_set_range(pa, n, key) ==
  LeafRangeHas(pa.leaf_smaller[n], pa.leaf_larger[n], n, key)

\* list.sort(key=...): stable, ascending; kf maps each element to its key
RECURSIVE SortSeqBy(_, _)
SortSeqBy(s, kf) ==
  IF s = <<>> THEN <<>>
  ELSE LET i == CHOOSE j \in 1 .. Len(s) :
                  /\ \A k \in 1 .. Len(s) : kf[s[j]] <= kf[s[k]]
                  /\ \A k \in 1 .. (j - 1) : kf[s[k]] /= kf[s[j]]
       IN  <<s[i]>> \o SortSeqBy(RemoveAt(s, i), kf)

\* a half that is appended to and sorted but never truncated
LeafHalfAdd_untruncated(half, other_id, kf) ==
  IF InSeq(other_id, half) THEN half ELSE SortSeqBy(Append(half, other_id), kf)

\* one half of a leaf set after other_id was appended, sorted and truncated
LeafHalfAdd(half, other_id, kf) ==
  IF InSeq(other_id, half) THEN half
  ELSE LET l == SortSeqBy(Append(half, other_id), kf)
       IN  IF Len(l) > LEAF_HALF THEN SubSeq(l, 1, Len(l) - 1) ELSE l

\* Pastry._add_to_leaf_set on the two halves [smaller, larger] of peer n, on
\* an id ring of the given size
LeafSetAdd(h, n, other_id, ring) ==
  IF other_id = n THEN h
  ELSE IF (other_id - n) % ring <= (n - other_id) % ring
  THEN [h EXCEPT !.larger =
          LeafHalfAdd(@, other_id, [x \in 0 .. (ring - 1) |-> (x - n) % ring])]
  ELSE [h EXCEPT !.smaller =
          LeafHalfAdd(@, other_id, [x \in 0 .. (ring - 1) |-> (n - x) % ring])]

LeafSetStore(pa, n, h) ==
  [pa EXCEPT !.leaf_smaller[n] = h.smaller, !.leaf_larger[n] = h.larger]

\* Pastry._add_to_leaf_set
_add_to_leaf_set(pa, n, other_id) ==
  LeafSetStore(pa, n,
               LeafSetAdd([smaller |-> pa.leaf_smaller[n], larger |-> pa.leaf_larger[n]],
                          n, other_id, max_id))

\* Pastry._add_to_routing_table: an empty cell takes the id, a set cell stays
_add_to_routing_table(pa, n, other_id) ==
  IF other_id = n THEN pa
  ELSE LET spl == _shared_prefix_length(n, other_id)
       IN  IF spl >= num_digits THEN pa
           ELSE LET col == _get_digit(other_id, spl)
                IN  IF pa.rt[n][spl][col] = None
                    THEN [pa EXCEPT !.rt[n][spl][col] = other_id]
                    ELSE pa

EmptyTable == [r \in 0 .. (num_digits - 1) |-> [c \in 0 .. (base - 1) |-> None]]

RECURSIVE LeafAddAll(_, _, _)
LeafAddAll(pa, n, order) ==
  IF order = <<>> THEN pa
  ELSE LeafAddAll(IF Head(order) /= n THEN _add_to_leaf_set(pa, n, Head(order)) ELSE pa,
                  n, Tail(order))

\* Pastry._build_leaf_set; order is the iteration order of the id set
_build_leaf_set(pa, n, order) ==
  LeafAddAll([pa EXCEPT !.leaf_smaller[n] = <<>>, !.leaf_larger[n] = <<>>], n, order)

RECURSIVE TableAddAll(_, _, _)
TableAddAll(pa, n, order) ==
  IF order = <<>> THEN pa
  ELSE TableAddAll(_add_to_routing_table(pa, n, Head(order)), n, Tail(order))

\* Pastry._build_routing_table
_build_routing_table(pa, n, order) ==
  TableAddAll([pa EXCEPT !.rt[n] = EmptyTable], n, order)

\* Pastry._get_routing_table_row
_get_routing_table_row(pa, n, row) ==
  IF 0 <= row /\ row < num_digits THEN pa.rt[n][row] ELSE [c \in 0 .. (base - 1) |-> None]

RECURSIVE MergeCols(_, _, _, _)
MergeCols(pa, n, entries, col) ==
  IF col >= base THEN pa
  ELSE MergeCols(IF entries[col] /= None /\ entries[col] /= n
                 THEN _add_to_routing_table(pa, n, entries[col]) ELSE pa,
                 n, entries, col + 1)

\* Pastry._merge_routing_table_row
_merge_routing_table_row(pa, n, row_idx, entries) ==
  IF row_idx < 0 \/ row_idx >= num_digits THEN pa ELSE MergeCols(pa, n, entries, 0)

\* the peers _rare_case_routing iterates: the leaf set, then every set cell
\* of the routing table row by row
RECURSIVE TableEntries(_, _, _, _)
TableEntries(pa, n, r, c) ==
  IF r >= num_digits THEN <<>>
  ELSE IF c >= base THEN TableEntries(pa, n, r + 1, 0)
  ELSE (IF pa.rt[n][r][c] /= None THEN <<pa.rt[n][r][c]>> ELSE <<>>)
       \o TableEntries(pa, n, r, c + 1)

iterate_known_nodes(pa, n) == leaf_set(pa, n) \o TableEntries(pa, n, 0, 0)

RECURSIVE RareScan_revisiting(_, _, _, _, _)
\* a candidate loop that does not skip the peers already visited
RareScan_revisiting(cands, n, key, visited, best) ==
  IF cands = <<>> THEN best
  ELSE LET candidate == Head(cands)
           cand_spl == _shared_prefix_length(candidate, key)
           cand_dist == _circular_distance(candidate, key)
           best1 == IF candidate = n THEN best
                    ELSE IF cand_spl > best.spl
                    THEN [node |-> candidate, spl |-> cand_spl, dist |-> cand_dist]
                    ELSE IF cand_spl = best.spl /\ cand_dist < best.dist
                    THEN [node |-> candidate, spl |-> best.spl, dist |-> cand_dist]
                    ELSE best
       IN  RareScan_revisiting(Tail(cands), n, key, visited, best1)

RECURSIVE RareScan(_, _, _, _, _)
\* the candidate loop of _rare_case_routing; best = [node, spl, dist]
RareScan(cands, n, key, visited, best) ==
  IF cands = <<>> THEN best
  ELSE LET candidate == Head(cands)
           cand_spl == _shared_prefix_length(candidate, key)
           cand_dist == _circular_distance(candidate, key)
           best1 == IF candidate = n \/ candidate \in visited THEN best
                    ELSE IF cand_spl > best.spl
                    THEN [node |-> candidate, spl |-> cand_spl, dist |-> cand_dist]
                    ELSE IF cand_spl = best.spl /\ cand_dist < best.dist
                    THEN [node |-> candidate, spl |-> best.spl, dist |-> cand_dist]
                    ELSE best
       IN  RareScan(Tail(cands), n, key, visited, best1)

\* _forward_route: network.send(msg), counted
PastryForwardSend(total_hops) == NetSend(total_hops, TRUE)

\* routing_table[spl][next_digit] of _route, None when spl = num_digits
RouteEntry(pa, n, key, spl) ==
  IF spl < num_digits THEN pa.rt[n][spl][_get_digit(key, spl)] ELSE None

\* _rare_case_routing up to `if best_node:`
RareBest(pa, n, key, visited, spl) ==
  RareScan(iterate_known_nodes(pa, n), n, key, visited,
           [node |-> None, spl |-> spl, dist |-> _circular_distance(n, key)])

RECURSIVE _route(_, _, _, _, _, _)
\* _route after visited.add(node.node_id): leaf set, routing table, rare case
RouteFrom(pa, n, key, visited, total_hops, path, entry, best_node) ==
  IF _is_in_leaf_set_range(pa, n, key)
  THEN [owner |-> _find_closest_in(key, Append(leaf_set(pa, n), n)),
        hops |-> total_hops, path |-> path]
  ELSE IF entry /= None /\ entry /= n /\ entry \notin visited
  THEN _route(pa, entry, key, visited, PastryForwardSend(total_hops), Append(path, entry))
  ELSE IF Truthy(best_node)
  THEN _route(pa, best_node, key, visited, PastryForwardSend(total_hops),
              Append(path, best_node))
  ELSE [owner |-> n, hops |-> total_hops, path |-> path]

\* Pastry._route at node n (with _rare_case_routing and _forward_route);
\* path lists the peers that handled the request (n last)
_route(pa, n, key, visited, total_hops, path) ==
  IF n \in visited THEN [owner |-> n, hops |-> total_hops, path |-> path]
  ELSE RouteFrom(pa, n, key, visited \cup {n}, total_hops, path,
                 RouteEntry(pa, n, key, _shared_prefix_length(n, key)),
                 RareBest(pa, n, key, visited \cup {n}, _shared_prefix_length(n, key)).node)

\* a store-op message that is counted like a routing message
PastryStoreSend_counted(total_hops) == NetSend(total_hops, TRUE)

\* network.send(msg, count_hop=False) of _dht_op
PastryStoreSend(total_hops) == NetSend(total_hops, FALSE)

\* the store-op at the owner r.owner and the value _dht_op returns
DhtOpDone(pa, r, h) ==
  [pa |-> [pa EXCEPT !.hops = PastryStoreSend(r.hops), !.store[r.owner] = h.store],
   hops |-> PastryStoreSend(r.hops), owner |-> r.owner, path |-> r.path, res |-> h.res]

DhtOpAt(pa, op, key, value, r) ==
  DhtOpDone(pa, r, StoreHandle(pa.store[r.owner], op, key, value))

DhtOpFrom(pa, op, key, value, src) ==
  DhtOpAt(pa, op, key, value, _route(pa, src, hash_key(key, M), {}, pa.hops, <<src>>))

\* Pastry._dht_op (lookup / insert / delete / update)
_dht_op(pa, key, op, value, source_node) ==
  IF pa.nodes = <<>>
  THEN [pa |-> pa, hops |-> 0, owner |-> None, path |-> <<>>, res |-> <<>>]
  ELSE DhtOpFrom([pa EXCEPT !.hops = 0], op, key, value,
                 IF source_node = None THEN pa.nodes[1] ELSE source_node)

\* PastryNode.__init__ and Pastry._register_node
_register_node(pa, n) ==
  [pa EXCEPT !.nodes = IF InSeq(n, @) THEN @ ELSE Append(@, n),
             !.leaf_smaller = Without(@, n) @@ (n :> <<>>),
             !.leaf_larger = Without(@, n) @@ (n :> <<>>),
             !.rt = Without(@, n) @@ (n :> EmptyTable),
             !.store = Without(@, n) @@ (n :> LocalStorage),
             !.reg = @ \cup {n}]

RECURSIVE PastryRegisterAll(_, _)
PastryRegisterAll(pa, order) ==
  IF order = <<>> THEN pa ELSE PastryRegisterAll(_register_node(pa, Head(order)), Tail(order))

RECURSIVE PastryBuildTables(_, _, _)
\* for node in self.nodes.values(): _build_leaf_set; _build_routing_table
\* (i is the position of node in self.nodes)
PastryBuildTables(pa, i, order) ==
  IF i > Len(pa.nodes) THEN pa
  ELSE PastryBuildTables(
         _build_routing_table(_build_leaf_set(pa, pa.nodes[i], order), pa.nodes[i], order),
         i + 1, order)

RECURSIVE PastryInsertItems(_, _)
PastryInsertItems(pa, items) ==
  IF items = <<>> THEN pa
  ELSE PastryInsertItems(_dht_op(pa, Head(items)[1], "insert", Head(items)[2], None).pa,
                         Tail(items))

PastryBuildAll(pa, order) == PastryBuildTables(pa, 1, order)

\* Pastry.build; order is the iteration order of normalized_ids (a set)
PastryBuild(pa, order, items) ==
  PastryInsertItems(PastryBuildAll(PastryRegisterAll(pa, order), order), items)

\* _forward_join: network.send(new_msg), counted
PastryJoinForwardSend(total_hops) == NetSend(total_hops, TRUE)

\* collected_rows after `if spl not in collected_rows: collected_rows[spl] = row`;
\* the dict in insertion order, as <<row index, row>> pairs
CollectRow(pa, n, collected_rows, spl) ==
  IF \E i \in 1 .. Len(collected_rows) : collected_rows[i][1] = spl
  THEN collected_rows
  ELSE Append(collected_rows, <<spl, _get_routing_table_row(pa, n, spl)>>)

\* the reply of the peer that takes itself for Z
JoinReply(pa, n, collected_rows, hops_path, total_hops) ==
  [collected_rows |-> collected_rows,
   leaf_set |-> <<pa.leaf_smaller[n], pa.leaf_larger[n]>>,
   z_node |-> n, hops_path |-> hops_path, hops |-> total_hops]

RECURSIVE _handle_join_route_msg(_, _, _, _, _, _)
\* _handle_join_route_msg after hops_path.append(node.node_id)
JoinRouteFrom(pa, n, new_id, collected_rows, hops_path, total_hops, closest, entry) ==
  IF _is_in_leaf_set_range(pa, n, new_id)
  THEN IF closest = n \/ closest = None \/ InSeq(closest, hops_path)
       THEN JoinReply(pa, n, collected_rows, hops_path, total_hops)
       ELSE _handle_join_route_msg(pa, closest, new_id, collected_rows, hops_path,
                                   PastryJoinForwardSend(total_hops))
  ELSE IF entry /= None /\ entry /= n /\ ~InSeq(entry, hops_path)
  THEN _handle_join_route_msg(pa, entry, new_id, collected_rows, hops_path,
                              PastryJoinForwardSend(total_hops))
  ELSE JoinReply(pa, n, collected_rows, hops_path, total_hops)

\* Pastry._handle_join_route_msg at node n for the joining id new_id
_handle_join_route_msg(pa, n, new_id, collected_rows, hops_path, total_hops) ==
  JoinRouteFrom(pa, n, new_id,
                CollectRow(pa, n, collected_rows, _shared_prefix_length(n, new_id)),
                Append(hops_path, n), total_hops,
                _find_closest_in(new_id, Append(leaf_set(pa, n), n)),
                RouteEntry(pa, n, new_id, _shared_prefix_length(n, new_id)))

RECURSIVE MergeRows(_, _, _)
\* for row_idx, entries in collected_rows.items(): _merge_routing_table_row
MergeRows(pa, n, rows) ==
  IF rows = <<>> THEN pa
  ELSE MergeRows(_merge_routing_table_row(pa, n, Head(rows)[1], Head(rows)[2]), n, Tail(rows))

RECURSIVE AddCandidates(_, _, _)
\* for cand in all_candidates: if cand: add to leaf set; if cand: add to table
AddCandidates(pa, n, order) ==
  IF order = <<>> THEN pa
  ELSE LET cand == Head(order)
           pa1 == IF Truthy(cand) THEN _add_to_leaf_set(pa, n, cand) ELSE pa
           pa2 == IF Truthy(cand) THEN _add_to_routing_table(pa1, n, cand) ELSE pa1
       IN  AddCandidates(pa2, n, Tail(order))

\* Pastry._handle_notify_arrival at node n
_handle_notify_arrival(pa, n, new_id) ==
  _add_to_routing_table(_add_to_leaf_set(pa, n, new_id), n, new_id)

\* the targets of _broadcast_arrival: the leaf set and every truthy table cell
ArrivalTargets(pa, n) ==
  Range(leaf_set(pa, n)) \cup {e \in Range(TableEntries(pa, n, 0, 0)) : Truthy(e)}

RECURSIVE NotifyAll(_, _, _)
NotifyAll(pa, n, targets) ==
  IF targets = {} THEN pa
  ELSE LET t == SetMin(targets)
       IN  NotifyAll(_handle_notify_arrival(pa, t, n), n, targets \ {t})

\* Pastry._broadcast_arrival; a notification changes the state of its target
\* only, so the iteration order of the target set does not show
_broadcast_arrival(pa, n) == NotifyAll(pa, n, ArrivalTargets(pa, n))

\* the keys _request_keys_from takes from z: closer to the new node, or as
\* close with the new node's id the lower one
KeysToTake(items, n, z_node_id) ==
  SelectSeq([i \in 1 .. Len(items) |-> items[i][1]],
            LAMBDA k :
              LET key_id == hash_key(k, M)
                  my_dist == _circular_distance(key_id, n)
                  z_dist == _circular_distance(key_id, z_node_id)
              IN  my_dist < z_dist \/ (my_dist = z_dist /\ n < z_node_id))

\* _request_keys_from: the puts at the new node and the deletes at z
TakeKeys(pa, n, z_node_id, keys_to_take) ==
  [pa EXCEPT !.store =
     [@ EXCEPT ![n] = LsPutItems(@, SelectSeq(LsGetAllItems(pa.store[z_node_id]),
                                              LAMBDA it : InSeq(it[1], keys_to_take))),
               ![z_node_id] = LsDeleteAll(@, keys_to_take)]]

\* Pastry._request_keys_from
_request_keys_from(pa, n, z_node_id) ==
  IF z_node_id = None THEN pa
  ELSE TakeKeys(pa, n, z_node_id, KeysToTake(LsGetAllItems(pa.store[z_node_id]), n, z_node_id))

RECURSIVE RequestAll(_, _, _)
RequestAll(pa, n, donors) ==
  IF donors = <<>> THEN pa
  ELSE RequestAll(_request_keys_from(pa, n, Head(donors)), n, Tail(donors))

\* _bootstrap: result = self.network.send(join_msg), counted
BootstrapResult(pa, n, bootstrap_node_id) ==
  _handle_join_route_msg(pa, bootstrap_node_id, n, <<>>, <<>>, NetSend(pa.hops, TRUE))

\* _bootstrap: the collected rows are merged into the new node's table
BootstrapHarvest(pa, n, result) ==
  MergeRows([pa EXCEPT !.hops = result.hops], n, result.collected_rows)

\* all_candidates of _bootstrap
BootstrapCandidates(result) ==
  Range(result.leaf_set[1] \o result.leaf_set[2] \o result.hops_path) \cup {result.z_node}

\* donors of _bootstrap
BootstrapDonors(pa, n, result) ==
  Range(leaf_set(pa, n)) \cup (IF Truthy(result.z_node) THEN {result.z_node} ELSE {})

\* the value a join or leave returns: get_stats()['total_hops']
PastryWithHops(pa) == [pa |-> pa, hops |-> pa.hops]

\* _bootstrap step 4, for every iteration order of donors
BootstrapDonate(pa, n, result) ==
  {PastryWithHops(RequestAll(pa, n, donor_order)) :
     donor_order \in SetOrders(BootstrapDonors(pa, n, result))}

\* _bootstrap steps 2 to 4, for every iteration order of all_candidates
BootstrapFrom(pa, n, result) ==
  UNION {BootstrapDonate(
           _broadcast_arrival(AddCandidates(BootstrapHarvest(pa, n, result), n, cand_order), n),
           n, result) :
         cand_order \in SetOrders(BootstrapCandidates(result))}

\* Pastry._bootstrap: the outcomes [pa, hops] of a join through bootstrap_node_id
_bootstrap(pa, n, bootstrap_node_id) ==
  BootstrapFrom(pa, n, BootstrapResult(pa, n, bootstrap_node_id))

\* Pastry.join: the outcomes [pa, hops]; the bootstrap peer is the first of self.nodes
PastryJoin(pa, new_node_input) ==
  LET new_node_id == new_node_input % max_id
  IN  IF InSeq(new_node_id, pa.nodes) THEN {[pa |-> pa, hops |-> 0]}
      ELSE IF pa.nodes = <<>> THEN {[pa |-> _register_node(pa, new_node_id), hops |-> 0]}
      ELSE _bootstrap([_register_node(pa, new_node_id) EXCEPT !.hops = 0],
                      new_node_id, pa.nodes[1])

RECURSIVE LeaveScan(_, _, _, _, _)
\* the inner loop of Pastry.leave over departing.leaf_set
LeaveScan(pa, node_id, key_id, todo, best) ==
  IF todo = <<>> THEN best.node
  ELSE LET nid == Head(todo)
           d == _circular_distance(key_id, nid)
           better == d < best.dist
                     \/ (d = best.dist /\ (best.node = None \/ nid < best.node))
       IN  LeaveScan(pa, node_id, key_id, Tail(todo),
                     IF InSeq(nid, pa.nodes) /\ nid /= node_id /\ better
                     THEN [node |-> nid, dist |-> d] ELSE best)

\* best_node of Pastry.leave for one key
LeaveBestNode(pa, node_id, key_id) ==
  LeaveScan(pa, node_id, key_id, leaf_set(pa, node_id), [node |-> None, dist |-> max_id])

RECURSIVE LeaveHandOff(_, _, _)
\* the graceful loop of Pastry.leave over the departing peer's items
LeaveHandOff(pa, node_id, items) ==
  IF items = <<>> THEN pa
  ELSE LET best_node == LeaveBestNode(pa, node_id, hash_key(Head(items)[1], M))
           pa1 == IF Truthy(best_node) /\ InSeq(best_node, pa.nodes)
                  THEN [pa EXCEPT !.store[best_node] =
                          LsPutAll(@, Head(items)[1], Head(items)[2])]
                  ELSE pa
       IN  LeaveHandOff(pa1, node_id, Tail(items))

\* a scrub that cleans the leaf halves and leaves the routing table alone
Scrub_leaves_only(pa, n, node_id) ==
  [pa EXCEPT !.leaf_smaller[n] = RemoveFirst(@, node_id),
             !.leaf_larger[n] = RemoveFirst(@, node_id)]

\* the scrub loop of Pastry.leave at one remaining node
Scrub(pa, n, node_id) ==
  [pa EXCEPT !.leaf_smaller[n] = RemoveFirst(@, node_id),
             !.leaf_larger[n] = RemoveFirst(@, node_id),
             !.rt[n] = [r \in 0 .. (num_digits - 1) |->
                          [c \in 0 .. (base - 1) |->
                             IF pa.rt[n][r][c] = node_id THEN None ELSE pa.rt[n][r][c]]]]

RECURSIVE ScrubAll(_, _, _)
ScrubAll(pa, todo, node_id) ==
  IF todo = <<>> THEN pa ELSE ScrubAll(Scrub(pa, Head(todo), node_id), Tail(todo), node_id)

\* Pastry.leave: unregister_node and del self.nodes[node_id]
PastryLeaveRemove(pa, node_id) ==
  [nodes        |-> RemoveFirst(pa.nodes, node_id),
   leaf_smaller |-> Without(pa.leaf_smaller, node_id),
   leaf_larger  |-> Without(pa.leaf_larger, node_id),
   rt           |-> Without(pa.rt, node_id),
   store        |-> Without(pa.store, node_id),
   reg          |-> pa.reg \ {node_id},
   hops         |-> pa.hops]

\* Pastry.leave: the departed id is removed from every remaining peer's state
PastryLeaveScrub(pa, node_id) == ScrubAll(pa, pa.nodes, node_id)

\* Pastry.leave, graceful part
PastryLeaveHandOff(pa, node_id, graceful) ==
  IF graceful THEN LeaveHandOff(pa, node_id, LsGetAllItems(pa.store[node_id])) ELSE pa

\* a leave that resets the hop counter before it looks the peer up
PastryLeave_resetting(pa, node_input, graceful) ==
  [pa |-> [pa EXCEPT !.hops = 0], hops |-> 0]

\* Pastry.leave: [pa, hops]
PastryLeave(pa, node_input, graceful) ==
  LET node_id == node_input % max_id
  IN  IF ~InSeq(node_id, pa.nodes) THEN [pa |-> pa, hops |-> 0]
      ELSE PastryWithHops(PastryLeaveScrub(
             PastryLeaveRemove(PastryLeaveHandOff([pa EXCEPT !.hops = 0], node_id, graceful),
                               node_id),
             node_id))

(***************************************************************************)
(* What the properties compare the code against                            *)
(***************************************************************************)
\* first id >= h in the sorted live set, wrapping to the smallest
successor_in_sorted(h, ids) ==
  IF \E x \in ids : x >= h THEN SetMin({x \in ids : x >= h}) ELSE SetMin(ids)

circular_distance(a, b) ==
  LET diff == IF a >= b THEN a - b ELSE b - a
  IN  IF diff <= max_id - diff THEN diff ELSE max_id - diff

\* the live id closest to h, the lower id on a tie
closest_live(h, ids) ==
  CHOOSE x \in ids : \A y \in ids :
    \/ circular_distance(x, h) < circular_distance(y, h)
    \/ (circular_distance(x, h) = circular_distance(y, h) /\ x <= y)

RECURSIVE SeqBag(_)
SeqBag(s) == IF s = <<>> THEN EmptyBag ELSE SetToBag({}) (+) (Head(s) :> 1) (+) SeqBag(Tail(s))

\* bag of (key, value) bindings of one storage, as get_all_items() reports them
RECURSIVE ItemsBag(_)
ItemsBag(items) ==
  IF items = <<>> THEN EmptyBag
  ELSE SeqBag([i \in 1 .. Len(Head(items)[2]) |-> <<Head(items)[1], Head(items)[2][i]>>])
       (+) ItemsBag(Tail(items))

RECURSIVE StoresBag(_, _)
\* bag of bindings summed over the storages of the peers in ids
StoresBag(store, ids) ==
  IF ids = {} THEN EmptyBag
  ELSE LET n == CHOOSE x \in ids : TRUE
       IN  ItemsBag(LsGetAllItems(store[n])) (+) StoresBag(store, ids \ {n})

\* peers whose index reports the key (dict) or answers for it (tree)
Holders(store, key) ==
  {n \in DOMAIN store : DataHas(store[n], key) \/ LsGet(store[n], key) /= <<>>}

(***************************************************************************)
(* State                                                                   *)
(***************************************************************************)
VARIABLES
  c_nodes, c_succ, c_pred, c_finger, c_store, c_reg, c_hops,   \* the Chord instance
  c_hung,      \* a Chord call that never returned
  c_phase,     \* "init", "built", "churn" (graceful joins/leaves only since build), "mixed"
  c_emptied,   \* the last peer has left at some point
  c_snap,      \* bindings and default-source lookups right after build
  c_last,      \* the last call and what it returned
  c_prev,      \* the client calls before it (most recent first, at most two)
  steps

VARIABLES
  p_nodes, p_leaf_smaller, p_leaf_larger, p_rt, p_store, p_reg, p_hops,  \* the Pastry instance
  p_phase, p_emptied, p_snap, p_last, p_prev     \* as c_phase .. c_prev, for Pastry

cvars == <<c_nodes, c_succ, c_pred, c_finger, c_store, c_reg, c_hops, c_hung,
           c_phase, c_emptied, c_snap, c_last, c_prev>>
pvars == <<p_nodes, p_leaf_smaller, p_leaf_larger, p_rt, p_store, p_reg, p_hops,
           p_phase, p_emptied, p_snap, p_last, p_prev>>
VARIABLES
  t_pc,      \* where each client thread is inside Chord.lookup
  t_key,     \* the key it looks up
  t_cur,     \* the peer its next find_successor message goes to
  t_owner,   \* responsible_node
  t_sent,    \* the counted messages it has sent for its lookup
  t_ret      \* the (values, hops) it returned

tvars == <<t_pc, t_key, t_cur, t_owner, t_sent, t_ret>>

VARIABLES
  n_nodes, n_total_hops, n_message_count,   \* a NetworkSimulator of its own
  n_last       \* the last call made on it, the counter before it, what it returned

nvars == <<n_nodes, n_total_hops, n_message_count, n_last>>

VARIABLES
  d_total_hops,   \* total_hops of the DistributedNetwork of each node server
  d_last          \* the last lookup served by a node server and what it returned

dvars == <<d_total_hops, d_last>>

VARIABLES
  l_store,     \* a LocalStorage of its own
  l_prev,      \* that LocalStorage before the last call made on it
  l_last       \* the last call made on it

lvars == <<l_store, l_prev, l_last>>

VARIABLES
  k_cfg,       \* a DHT constructed with a configuration of its own: kind, m, b
  k_raised,    \* the exception its constructor or its build raised, "none" if none
  k_peers,     \* the keys of its self.nodes
  k_reg,       \* the ids registered with its transport
  k_last       \* the last call made on it

kvars == <<k_cfg, k_raised, k_peers, k_reg, k_last>>

VARIABLES
  f_last       \* the last join made over a transport that fails deliveries

fvars == <<f_last>>

VARIABLES
  g_n,                    \* a Pastry peer on a ring of 2^LeafBits ids, None before it exists
  g_smaller, g_larger,    \* its leaf halves
  g_live,                 \* the other peers it was told of and that have not left
  g_last                  \* the last thing it was told

gvars == <<g_n, g_smaller, g_larger, g_live, g_last>>

VARIABLES
  h_pc,        \* where a join or leave that is run statement by statement stands
  h_call,      \* that call: the DHT, the joining or departing peer, the other peer
  h_todo,      \* the storage.put calls it still has to make: <<key, value, peer>>
  h_take,      \* the keys it still has to tell the donor to delete
  h_donors,    \* the donors a Pastry join still has to ask
  h_moving     \* the items the hand-off under way moves

hvars == <<h_pc, h_call, h_todo, h_take, h_donors, h_moving>>

VARIABLES
  q_in,        \* the arguments a function is called with on its own
  q_out        \* <<>> before the call, <<what it returned>> after

qvars == <<q_in, q_out>>

VARIABLES
  b_tree,      \* a BPlusTree of its own
  b_ref,       \* the value list every key should have, by the calls made so far
  b_last,      \* the last call made on it
  b_calls      \* how many keys were loaded in order, how many other calls were made

bvars == <<b_tree, b_ref, b_last, b_calls>>

VARIABLES
  x_nodes,     \* the ids registered with a NetworkSimulator used by several threads
  x_hops,      \* its total_hops
  x_lock,      \* the thread that holds self.lock, None if it is free
  x_stack,     \* per thread, the calls in progress, innermost last
  x_calls      \* per thread, the calls it has started

xvars == <<x_nodes, x_hops, x_lock, x_stack, x_calls>>

VARIABLES
  s_index,     \* the local index of the peer behind a node server
  s_pc,        \* per server thread, where it stands in the request it handles
  s_req        \* per server thread, that request

svars == <<s_index, s_pc, s_req>>
ovars == <<qvars, bvars, xvars, svars>>
vars == <<cvars, pvars, tvars, nvars, dvars, lvars, kvars, fvars, gvars, hvars, ovars, steps>>

\* a call on one instance leaves the others alone
ChordOnly == UNCHANGED <<pvars, tvars, nvars, dvars, lvars, kvars, fvars, gvars, hvars, ovars>>
PastryOnly == UNCHANGED <<cvars, tvars, nvars, dvars, lvars, kvars, fvars, gvars, hvars, ovars>>

Ch == [nodes |-> c_nodes, succ |-> c_succ, pred |-> c_pred, finger |-> c_finger,
       store |-> c_store, reg |-> c_reg, hops |-> c_hops]

SetCh(ch) ==
  /\ c_nodes' = ch.nodes
  /\ c_succ' = ch.succ
  /\ c_pred' = ch.pred
  /\ c_finger' = ch.finger
  /\ c_store' = ch.store
  /\ c_reg' = ch.reg
  /\ c_hops' = ch.hops

NoCall == [op |-> "none", key |-> "", value |-> <<>>, src |-> None, hops |-> 0,
           owner |-> None, path |-> <<>>, res |-> <<>>]

Brief(call) == [op |-> call.op, key |-> call.key, value |-> call.value]

CInit ==
  /\ c_nodes = ChordInit.nodes
  /\ c_succ = ChordInit.succ
  /\ c_pred = ChordInit.pred
  /\ c_finger = ChordInit.finger
  /\ c_store = ChordInit.store
  /\ c_reg = ChordInit.reg
  /\ c_hops = ChordInit.hops
  /\ c_hung = FALSE
  /\ c_phase = "init"
  /\ c_emptied = FALSE
  /\ c_snap = [bag |-> EmptyBag, look |-> EmptyFn]
  /\ c_last = NoCall
  /\ c_prev = <<>>

Pa == [nodes |-> p_nodes, leaf_smaller |-> p_leaf_smaller, leaf_larger |-> p_leaf_larger,
       rt |-> p_rt, store |-> p_store, reg |-> p_reg, hops |-> p_hops]

SetPa(pa) ==
  /\ p_nodes' = pa.nodes
  /\ p_leaf_smaller' = pa.leaf_smaller
  /\ p_leaf_larger' = pa.leaf_larger
  /\ p_rt' = pa.rt
  /\ p_store' = pa.store
  /\ p_reg' = pa.reg
  /\ p_hops' = pa.hops

PInit ==
  /\ p_nodes = PastryInit.nodes
  /\ p_leaf_smaller = PastryInit.leaf_smaller
  /\ p_leaf_larger = PastryInit.leaf_larger
  /\ p_rt = PastryInit.rt
  /\ p_store = PastryInit.store
  /\ p_reg = PastryInit.reg
  /\ p_hops = PastryInit.hops
  /\ p_phase = "init"
  /\ p_emptied = FALSE
  /\ p_snap = [bag |-> EmptyBag, look |-> EmptyFn]
  /\ p_last = NoCall
  /\ p_prev = <<>>

Threads == 1 .. NThreads

TInit ==
  /\ t_pc = [t \in Threads |-> "idle"]
  /\ t_key = [t \in Threads |-> ""]
  /\ t_cur = [t \in Threads |-> None]
  /\ t_owner = [t \in Threads |-> None]
  /\ t_sent = [t \in Threads |-> 0]
  /\ t_ret = [t \in Threads |-> [values |-> <<>>, hops |-> 0]]

Net == [nodes |-> n_nodes, total_hops |-> n_total_hops, message_count |-> n_message_count]

SetNet(net) ==
  /\ n_nodes' = net.nodes
  /\ n_total_hops' = net.total_hops
  /\ n_message_count' = net.message_count

NoNetCall == [op |-> "none", dst |-> None, count_hop |-> FALSE, before |-> 0,
              raised |-> "", reply |-> [by |-> "", msg |-> [dst_id |-> None, data |-> ""]]]

NInit ==
  /\ n_nodes = NetworkSimulator.nodes
  /\ n_total_hops = NetworkSimulator.total_hops
  /\ n_message_count = NetworkSimulator.message_count
  /\ n_last = NoNetCall

\* DHTNodeServer.__init__: every server creates its own DistributedNetwork
DInit ==
  /\ d_total_hops = [x \in Ids |-> 0]
  /\ d_last = NoCall

NoLocalCall == [op |-> "none", key |-> "", values |-> <<>>]

\* LocalStorage.__init__
LInit ==
  /\ l_store = LocalStorage
  /\ l_prev = LocalStorage
  /\ l_last = NoLocalCall

NoConfig == [kind |-> "none", m |-> 0, b |-> 0]
NoConfigCall == [op |-> "none", node_ids |-> <<>>]

KInit ==
  /\ k_cfg = NoConfig
  /\ k_raised = "none"
  /\ k_peers = {}
  /\ k_reg = {}
  /\ k_last = NoConfigCall

NoFaultyJoin == [op |-> "none", targets |-> {}, failing |-> {}, notified |-> {},
                 raised |-> FALSE, requested |-> {}, hops |-> None]

FInit == f_last = NoFaultyJoin

NoLeafCall == [op |-> "none", other |-> None]

GInit ==
  /\ g_n = None
  /\ g_smaller = <<>>
  /\ g_larger = <<>>
  /\ g_live = {}
  /\ g_last = NoLeafCall

NoHandoff == [dht |-> "none", op |-> "none", node |-> None, peer |-> None, start |-> None]

HInit ==
  /\ h_pc = "idle"
  /\ h_call = NoHandoff
  /\ h_todo = <<>>
  /\ h_take = <<>>
  /\ h_donors = <<>>
  /\ h_moving = <<>>

NoInput == [fn |-> "none"]

QInit ==
  /\ q_in = NoInput
  /\ q_out = <<>>

\* BPlusTree.__init__
BInit ==
  /\ b_tree = BPlusTree
  /\ b_ref = [k \in Range(KeysSorted) |-> <<>>]
  /\ b_last = "none"
  /\ b_calls = [load |-> 0, edit |-> 0]

BusThreads == 1 .. 2
ServerThreads == 1 .. 2

\* NetworkSimulator.__init__, no call started yet
XInit ==
  /\ x_nodes = {}
  /\ x_hops = 0
  /\ x_lock = None
  /\ x_stack = [t \in BusThreads |-> <<>>]
  /\ x_calls = [t \in BusThreads |-> 0]

NoRequest == [op |-> "none", key |-> "", value |-> ""]

\* DHTNodeServer.__init__: a peer with an empty index, no request in progress
SInit ==
  /\ s_index = LocalStorage
  /\ s_pc = [t \in ServerThreads |-> "idle"]
  /\ s_req = [t \in ServerThreads |-> NoRequest]

\* every part of the state but the arguments q_in, q_out
InitButQ ==
  CInit /\ PInit /\ TInit /\ NInit /\ DInit /\ LInit /\ KInit /\ FInit /\ GInit /\ HInit
  /\ BInit /\ XInit /\ SInit /\ steps = 0

Init == InitButQ /\ QInit


ClientOps == {"lookup", "insert", "delete", "update"}
UpdateLists == {<<>>, <<"C">>}     \* value lists offered to update
InsertValues == {"B"}              \* values offered to insert
GracefulChoices == {TRUE}          \* leave(graceful=...)
BuildNodeLists == DistinctSeqs(PeerIds, 1, MaxBuildNodes) \cup {<<3, max_id + 3>>}
BuildItemLists(n) == SeqsUpTo(Keys \X {"A"}, n)

\* the calls remembered before the last one: client calls only, two at most
PrevAfter(last, prev) ==
  IF last.op \in ClientOps
  THEN SubSeq(<<Brief(last)>> \o prev, 1, IF Len(prev) >= 1 THEN 2 ELSE 1)
  ELSE <<>>

CSources == Range(c_nodes) \cup {None}

(***************************************************************************)
(* Chord actions                                                           *)
(***************************************************************************)
CBuild(node_ids, items) ==
  /\ c_phase = "init"
  /\ \E ch \in {ChordBuild(Ch, node_ids, items)},
        ks \in {{items[i][1] : i \in 1 .. Len(items)}} :
         /\ SetCh(ch)
         /\ c_snap' = [bag  |-> StoresBag(ch.store, Range(ch.nodes)),
                       look |-> [k \in ks |-> ChordClientOp(ch, "lookup", k, <<>>, None).res]]
         /\ c_last' = [NoCall EXCEPT !.op = "build", !.hops = ch.hops]
  /\ c_phase' = "built"
  /\ c_prev' = <<>>
  /\ UNCHANGED <<c_hung, c_emptied, steps>>
  /\ ChordOnly

CClient(limit, op, key, value, src) ==
  /\ c_phase /= "init"
  /\ ~c_hung
  /\ steps < limit
  /\ \E r \in {ChordClientOp(Ch, op, key, value, src)} :
         /\ SetCh(r.ch)
         /\ c_last' = [op |-> op, key |-> key, value |-> value, src |-> src,
                       hops |-> r.hops, owner |-> r.owner, path |-> r.path, res |-> r.res]
  /\ c_prev' = PrevAfter(c_last, c_prev)
  /\ c_phase' = IF op = "lookup" THEN c_phase ELSE "mixed"
  /\ steps' = steps + 1
  /\ UNCHANGED <<c_hung, c_emptied, c_snap>>
  /\ ChordOnly

CLookup(limit) ==
  \E key \in Keys, src \in CSources : CClient(limit, "lookup", key, <<>>, src)
CInsert(limit) ==
  \E key \in Keys, v \in InsertValues, src \in CSources : CClient(limit, "insert", key, v, src)
CDelete(limit) ==
  \E key \in Keys, src \in CSources : CClient(limit, "delete", key, <<>>, src)
CUpdate(limit) ==
  \E key \in Keys, vs \in UpdateLists, src \in CSources : CClient(limit, "update", key, vs, src)

\* join(x) for x among ids, tried while fewer than max_live peers are live
CJoinOf(limit, ids, max_live) ==
  \E x \in ids :
    /\ c_phase /= "init"
    /\ ~c_hung
    /\ steps < limit
    /\ (Len(c_nodes) < max_live \/ InSeq(x % max_id, c_nodes))
    /\ \E r \in {ChordJoin(Ch, x)} :
           /\ SetCh(r.ch)
           /\ c_last' = [NoCall EXCEPT !.op = "join", !.src = x, !.hops = r.hops]
    /\ c_phase' = IF c_phase = "built" THEN "churn" ELSE c_phase
    /\ c_prev' = <<>>
    /\ steps' = steps + 1
    /\ UNCHANGED <<c_hung, c_emptied, c_snap>>
    /\ ChordOnly
  /\ ChordOnly

CJoin(limit) == CJoinOf(limit, JoinIds, MaxLive)

\* leave(x) for x among ids
CLeaveOf(limit, ids) ==
  \E x \in ids, graceful \in GracefulChoices :
    /\ c_phase /= "init"
    /\ ~c_hung
    /\ steps < limit
    /\ \E r \in {ChordLeave(Ch, x, graceful)} :
           /\ SetCh(r.ch)
           /\ c_hung' = r.hung
           /\ c_emptied' = (c_emptied \/ (r.ch.nodes = <<>> /\ ~r.hung))
           /\ c_last' = [NoCall EXCEPT !.op = "leave", !.src = x, !.hops = r.hops]
    /\ c_phase' = IF ~graceful /\ InSeq(x % max_id, c_nodes) THEN "mixed"
                  ELSE IF c_phase = "built" THEN "churn" ELSE c_phase
    /\ c_prev' = <<>>
    /\ steps' = steps + 1
    /\ UNCHANGED <<c_snap>>
    /\ ChordOnly

CLeave(limit) == CLeaveOf(limit, JoinIds)

CBuildAny(n) ==
  \E node_ids \in BuildNodeLists, items \in BuildItemLists(n) : CBuild(node_ids, items)

\* client calls on a built ring
COpsNext == \/ CBuildAny(MaxItems)
            \/ CLookup(MaxOps)
            \/ CInsert(MaxOps)
            \/ CDelete(MaxOps)
            \/ CUpdate(MaxOps)

\* joins and leaves on a built ring
CChurnNext == \/ CBuildAny(MaxChurnItems)
              \/ CJoin(MaxChurn)
              \/ CLeave(MaxChurn)

SpecChordOps == Init /\ [][COpsNext]_vars
SpecChordChurn == Init /\ [][CChurnNext]_vars

(***************************************************************************)
(* Chord routing on its own: find_successor on large rings after build,    *)
(* join and leave, and on small rings whose finger entries were overwritten *)
(* with arbitrary live peers.                                              *)
(***************************************************************************)
\* node_ids given to build: every ring of MinRing peers or more, and every
\* ring over PeerIds
RingLists ==
  {SortedSeq(S) : S \in {T \in SUBSET Ids : Cardinality(T) >= MinRing}}
    \cup {SortedSeq(S) : S \in (SUBSET PeerIds) \ {{}}}

CBuildRing == \E node_ids \in RingLists : CBuild(node_ids, <<>>)

\* a finger entry of a peer of a small ring comes to name an arbitrary live peer
CSetFinger(limit) ==
  \E n \in Range(c_nodes), i \in 0 .. (M - 1), v \in Range(c_nodes) :
    /\ c_phase /= "init"
    /\ ~c_hung
    /\ steps < limit
    /\ Len(c_nodes) <= MaxLive
    /\ c_finger' = [c_finger EXCEPT ![n][i] = v]
    /\ c_phase' = "mixed"
    /\ c_last' = [NoCall EXCEPT !.op = "set_finger", !.src = n]
    /\ c_prev' = <<>>
    /\ steps' = steps + 1
    /\ UNCHANGED <<c_nodes, c_succ, c_pred, c_store, c_reg, c_hops, c_hung, c_emptied, c_snap>>
    /\ ChordOnly

\* Chord._find_successor(target_id, source_node); c_last.value is the target
CFind(limit) ==
  \E target_id \in Ids, source_node \in Range(c_nodes) :
    /\ c_phase /= "init"
    /\ ~c_hung
    /\ steps < limit
    /\ \E r \in {Chord_find_successor(Ch, target_id, source_node)} :
           /\ c_hops' = r.hops
           /\ c_last' = [op |-> "find_successor", key |-> "", value |-> target_id,
                         src |-> source_node, hops |-> r.hops, owner |-> r.owner,
                         path |-> r.path, res |-> <<>>]
    /\ c_prev' = <<>>
    /\ steps' = steps + 1
    /\ UNCHANGED <<c_nodes, c_succ, c_pred, c_finger, c_store, c_reg, c_hung, c_phase,
                   c_emptied, c_snap>>
    /\ ChordOnly

CRouteNext == \/ CBuildRing
              \/ CJoinOf(MaxRouteSteps, Ids, max_id)
              \/ CLeaveOf(MaxRouteSteps, Ids)
              \/ CSetFinger(MaxRouteSteps)
              \/ CFind(MaxRouteSteps)

SpecChordRoute == Init /\ [][CRouteNext]_vars

(***************************************************************************)
(* Chord.lookup run by the worker threads of lookup_popularity_concurrent.  *)
(* A thread takes one step per critical section of the network lock; the   *)
(* handler code between two sends only reads the ring.                     *)
(***************************************************************************)
\* lookup entry: reset_counters(), default source
TStart(t) ==
  \E key \in Keys :
    /\ c_phase = "built"
    /\ c_nodes /= <<>>
    /\ t_pc[t] = "idle"
    /\ c_hops' = 0
    /\ t_key' = [t_key EXCEPT ![t] = key]
    /\ t_cur' = [t_cur EXCEPT ![t] = c_nodes[1]]
    /\ t_pc' = [t_pc EXCEPT ![t] = "route"]
    /\ UNCHANGED <<c_nodes, c_succ, c_pred, c_finger, c_store, c_reg, c_hung, c_phase,
                   c_emptied, c_snap, c_last, c_prev, t_owner, t_sent, t_ret, pvars, nvars, dvars, lvars, kvars, fvars, gvars, hvars, ovars, steps>>

\* network.send of one find_successor message and the handler it runs, up to
\* the handler's own send or its return
TRoute(t) ==
  /\ t_pc[t] = "route"
  /\ LET n == t_cur[t]
         target_id == hash_key(t_key[t], M)
         closest == _closest_preceding_node(Ch, n, target_id)
         answers == \/ _in_range(target_id, n, c_succ[n], FALSE, TRUE)
                    \/ closest = n
     IN  /\ c_hops' = NetSend(c_hops, TRUE)
         /\ t_sent' = [t_sent EXCEPT ![t] = @ + 1]
         /\ t_owner' = [t_owner EXCEPT ![t] = IF answers THEN c_succ[n] ELSE @]
         /\ t_cur' = [t_cur EXCEPT ![t] = IF answers THEN @ ELSE closest]
         /\ t_pc' = [t_pc EXCEPT ![t] = IF answers THEN "store" ELSE "route"]
  /\ UNCHANGED <<c_nodes, c_succ, c_pred, c_finger, c_store, c_reg, c_hung, c_phase,
                 c_emptied, c_snap, c_last, c_prev, t_key, t_ret, pvars, nvars, dvars, lvars, kvars, fvars, gvars, hvars, ovars, steps>>

\* network.send(msg, count_hop=False) of the lookup message: storage.get
TStore(t) ==
  /\ t_pc[t] = "store"
  /\ c_hops' = NetSend(c_hops, FALSE)
  /\ t_ret' = [t_ret EXCEPT ![t].values = LsGet(c_store[t_owner[t]], t_key[t])]
  /\ t_pc' = [t_pc EXCEPT ![t] = "stats"]
  /\ UNCHANGED <<c_nodes, c_succ, c_pred, c_finger, c_store, c_reg, c_hung, c_phase,
                 c_emptied, c_snap, c_last, c_prev, t_key, t_cur, t_owner, t_sent, pvars, nvars, dvars, lvars, kvars, fvars, gvars, hvars, ovars, steps>>

\* get_stats() and return
TStats(t) ==
  /\ t_pc[t] = "stats"
  /\ t_ret' = [t_ret EXCEPT ![t].hops = c_hops]
  /\ t_pc' = [t_pc EXCEPT ![t] = "done"]
  /\ UNCHANGED <<cvars, t_key, t_cur, t_owner, t_sent, pvars, nvars, dvars, lvars, kvars, fvars, gvars, hvars, ovars, steps>>

ConcNext == \/ CBuildAny(MaxItems)
            \/ \E t \in Threads : TStart(t)
            \/ \E t \in Threads : TRoute(t)
            \/ \E t \in Threads : TStore(t)
            \/ \E t \in Threads : TStats(t)

SpecConc == Init /\ [][ConcNext]_vars

(***************************************************************************)
(* ChordNode.lookup issued at a peer, on the in-memory bus and on node      *)
(* servers that talk over HTTP.  The orchestrator initialises the servers  *)
(* with the successor, predecessor and fingers that Chord.build computes,  *)
(* so both deployments share the ring c_nodes .. c_store.                  *)
(***************************************************************************)
\* ChordNode.lookup(key) at node n over the NetworkSimulator
CNodeLookup(limit) ==
  \E n \in Range(c_nodes), key \in Keys :
    /\ c_phase = "built"
    /\ steps < limit
    /\ \E r \in {ChordNodeLookup(Ch, n, key)} :
         /\ c_hops' = r.ch.hops
         /\ c_last' = [op |-> "node_lookup", key |-> key, value |-> <<>>, src |-> n,
                       hops |-> r.hops, owner |-> r.owner, path |-> r.path,
                       res |-> r.values]
    /\ c_prev' = <<>>
    /\ steps' = steps + 1
    /\ UNCHANGED <<c_nodes, c_succ, c_pred, c_finger, c_store, c_reg, c_hung, c_phase,
                   c_emptied, c_snap>>
    /\ ChordOnly

\* POST /lookup on the server of node n: ChordNode.lookup(key) over HTTP
DLookup(limit) ==
  \E n \in Range(c_nodes), key \in Keys :
    /\ c_phase = "built"
    /\ steps < limit
    /\ \E r \in {HttpNodeLookup(Ch, d_total_hops, n, key)} :
         /\ d_total_hops' = r.counters
         /\ d_last' = [op |-> "node_lookup", key |-> key, value |-> <<>>, src |-> n,
                       hops |-> r.hops, owner |-> r.owner, path |-> r.path,
                       res |-> r.values]
    /\ steps' = steps + 1
    /\ UNCHANGED <<cvars, pvars, tvars, nvars, lvars, kvars, fvars, gvars, hvars, ovars>>

TransportsNext == \/ CBuildRing
                  \/ CNodeLookup(MaxRouteSteps)
                  \/ DLookup(MaxRouteSteps)

SpecTransports == Init /\ [][TransportsNext]_vars

(***************************************************************************)
(* Calls on a NetworkSimulator of its own, with opaque handlers            *)
(***************************************************************************)
NetIds == {0, 3}
Handlers == {"h1", "h2"}
NetData == {"ping"}

NFrame == /\ steps < MaxNetCalls
          /\ steps' = steps + 1
          /\ UNCHANGED <<cvars, pvars, tvars, dvars, lvars, kvars, fvars, gvars, hvars, ovars>>

NRegister ==
  \E node_id \in NetIds, handler \in Handlers :
    /\ NFrame
    /\ SetNet(register_node(Net, node_id, handler))
    /\ n_last' = [NoNetCall EXCEPT !.op = "register_node", !.dst = node_id,
                                   !.before = n_total_hops]

NUnregister ==
  \E node_id \in NetIds :
    /\ NFrame
    /\ SetNet(unregister_node(Net, node_id))
    /\ n_last' = [NoNetCall EXCEPT !.op = "unregister_node", !.dst = node_id,
                                   !.before = n_total_hops]

NSend ==
  \E dst_id \in NetIds, data \in NetData, count_hop \in BOOLEAN :
    /\ NFrame
    /\ \E r \in {send(Net, [dst_id |-> dst_id, data |-> data], count_hop)} :
         /\ SetNet(r.net)
         /\ n_last' = [op |-> "send", dst |-> dst_id, count_hop |-> count_hop,
                       before |-> n_total_hops, raised |-> r.raised, reply |-> r.reply]

NReset ==
  /\ NFrame
  /\ SetNet(reset_counters(Net))
  /\ n_last' = [NoNetCall EXCEPT !.op = "reset_counters", !.before = n_total_hops]

NStats ==
  /\ NFrame
  /\ UNCHANGED <<n_nodes, n_total_hops, n_message_count>>
  /\ n_last' = [NoNetCall EXCEPT !.op = "get_stats", !.before = n_total_hops,
                                 !.reply.msg.data = get_stats(Net)]

NetNext == NRegister \/ NUnregister \/ NSend \/ NReset \/ NStats

SpecNet == Init /\ [][NetNext]_vars

(***************************************************************************)
(* Pastry actions                                                          *)
(***************************************************************************)
BuildNodeSets == {Range(l) : l \in BuildNodeLists}
PSources == Range(p_nodes) \cup {None}

PBuild(node_ids, order, items) ==
  /\ p_phase = "init"
  /\ \E pa \in {PastryBuild(Pa, order, items)},
        ks \in {{items[i][1] : i \in 1 .. Len(items)}} :
         /\ SetPa(pa)
         /\ p_snap' = [bag  |-> StoresBag(pa.store, Range(pa.nodes)),
                       look |-> [k \in ks |-> _dht_op(pa, k, "lookup", <<>>, None).res]]
         /\ p_last' = [NoCall EXCEPT !.op = "build", !.hops = pa.hops]
  /\ p_phase' = "built"
  /\ p_prev' = <<>>
  /\ UNCHANGED <<p_emptied, steps>>
  /\ PastryOnly

PBuildAny(n) ==
  \E node_ids \in BuildNodeSets, items \in BuildItemLists(n) :
    \E order \in SetOrders({nid % max_id : nid \in node_ids}) :
      PBuild(node_ids, order, items)

PClient(limit, op, key, value, src) ==
  /\ p_phase /= "init"
  /\ steps < limit
  /\ \E r \in {_dht_op(Pa, key, op, value, src)} :
         /\ SetPa(r.pa)
         /\ p_last' = [op |-> op, key |-> key, value |-> value, src |-> src,
                       hops |-> r.hops, owner |-> r.owner, path |-> r.path, res |-> r.res]
  /\ p_prev' = PrevAfter(p_last, p_prev)
  /\ p_phase' = IF op = "lookup" THEN p_phase ELSE "mixed"
  /\ steps' = steps + 1
  /\ UNCHANGED <<p_emptied, p_snap>>
  /\ PastryOnly

PLookup(limit) ==
  \E key \in Keys, src \in PSources : PClient(limit, "lookup", key, <<>>, src)
PInsert(limit) ==
  \E key \in Keys, v \in InsertValues, src \in PSources : PClient(limit, "insert", key, v, src)
PDelete(limit) ==
  \E key \in Keys, src \in PSources : PClient(limit, "delete", key, <<>>, src)
PUpdate(limit) ==
  \E key \in Keys, vs \in UpdateLists, src \in PSources : PClient(limit, "update", key, vs, src)

PJoin(limit) ==
  \E x \in JoinIds :
    /\ p_phase /= "init"
    /\ steps < limit
    /\ (Len(p_nodes) < MaxLive \/ InSeq(x % max_id, p_nodes))
    /\ \E r \in PastryJoin(Pa, x) :
         /\ SetPa(r.pa)
         /\ p_last' = [NoCall EXCEPT !.op = "join", !.src = x, !.hops = r.hops]
    /\ p_phase' = IF p_phase = "built" THEN "churn" ELSE p_phase
    /\ p_prev' = <<>>
    /\ steps' = steps + 1
    /\ UNCHANGED <<p_emptied, p_snap>>
    /\ PastryOnly

PLeave(limit) ==
  \E x \in JoinIds, graceful \in GracefulChoices :
    /\ p_phase /= "init"
    /\ steps < limit
    /\ \E r \in {PastryLeave(Pa, x, graceful)} :
           /\ SetPa(r.pa)
           /\ p_emptied' = (p_emptied \/ r.pa.nodes = <<>>)
           /\ p_last' = [NoCall EXCEPT !.op = "leave", !.src = x, !.hops = r.hops]
    /\ p_phase' = IF ~graceful /\ InSeq(x % max_id, p_nodes) THEN "mixed"
                  ELSE IF p_phase = "built" THEN "churn" ELSE p_phase
    /\ p_prev' = <<>>
    /\ steps' = steps + 1
    /\ UNCHANGED <<p_snap>>
    /\ PastryOnly

\* client calls on a built Pastry network
POpsNext == \/ PBuildAny(MaxItems)
            \/ PLookup(MaxOps)
            \/ PInsert(MaxOps)
            \/ PDelete(MaxOps)
            \/ PUpdate(MaxOps)

\* joins and leaves on a built Pastry network
PChurnNext == \/ PBuildAny(MaxChurnItems)
              \/ PJoin(MaxChurn)
              \/ PLeave(MaxChurn)

SpecPastryOps == Init /\ [][POpsNext]_vars
SpecPastryChurn == Init /\ [][PChurnNext]_vars

(***************************************************************************)
(* Pastry routing on its own: _route on networks after build, join and     *)
(* leave, and on small networks whose leaf sets and routing-table cells    *)
(* were overwritten with arbitrary live peers.                             *)
(***************************************************************************)
\* node_ids given to build, in the order CPython iterates a set of small
\* ints (ascending) for the large networks and in every order for the small
PBuildRing ==
  \/ \E node_ids \in {T \in SUBSET Ids : Cardinality(T) >= MinRing} :
       PBuild(node_ids, SortedSeq(node_ids), <<>>)
  \/ \E node_ids \in (SUBSET PeerIds) \ {{}} :
       \E order \in SetOrders(node_ids) : PBuild(node_ids, order, <<>>)

\* the frame of a step that overwrites routing state of a small network
PSetFrame(limit, n) ==
  /\ p_phase /= "init"
  /\ steps < limit
  /\ Len(p_nodes) <= MaxLive
  /\ p_phase' = "mixed"
  /\ p_last' = [NoCall EXCEPT !.op = "set_routing", !.src = n]
  /\ p_prev' = <<>>
  /\ steps' = steps + 1
  /\ UNCHANGED <<p_nodes, p_store, p_reg, p_hops, p_emptied, p_snap>>
  /\ PastryOnly

\* a routing-table cell of a peer comes to name an arbitrary live peer
PSetCell(limit) ==
  \E n \in Range(p_nodes), r \in 0 .. (num_digits - 1), c \in 0 .. (base - 1),
     v \in Range(p_nodes) :
    /\ PSetFrame(limit, n)
    /\ p_rt' = [p_rt EXCEPT ![n][r][c] = v]
    /\ UNCHANGED <<p_leaf_smaller, p_leaf_larger>>

\* one half of a peer's leaf set comes to list arbitrary live peers
PSetLeaves(limit) ==
  \E n \in Range(p_nodes), smaller \in BOOLEAN,
     half \in DistinctSeqs(Range(p_nodes), 0, 2) :
    /\ PSetFrame(limit, n)
    /\ p_leaf_smaller' = IF smaller THEN [p_leaf_smaller EXCEPT ![n] = half]
                         ELSE p_leaf_smaller
    /\ p_leaf_larger' = IF smaller THEN p_leaf_larger
                        ELSE [p_leaf_larger EXCEPT ![n] = half]
    /\ UNCHANGED p_rt

\* Pastry._route(node, key) started at a live peer; p_last.value is the key
\* and p_last.hops the hops this request added to the counter
PRoute(limit) ==
  \E key \in Ids, source_node \in Range(p_nodes) :
    /\ p_phase /= "init"
    /\ steps < limit
    /\ \E r \in {_route(Pa, source_node, key, {}, p_hops, <<source_node>>)} :
           /\ p_hops' = r.hops
           /\ p_last' = [op |-> "route", key |-> "", value |-> key,
                         src |-> source_node, hops |-> r.hops - p_hops,
                         owner |-> r.owner, path |-> r.path, res |-> <<>>]
    /\ p_prev' = <<>>
    /\ steps' = steps + 1
    /\ UNCHANGED <<p_nodes, p_leaf_smaller, p_leaf_larger, p_rt, p_store, p_reg,
                   p_phase, p_emptied, p_snap>>
    /\ PastryOnly

PRouteNext == \/ PBuildRing
              \/ PJoin(MaxRouteSteps)
              \/ PLeave(MaxRouteSteps)
              \/ PSetCell(MaxRouteSteps)
              \/ PSetLeaves(MaxRouteSteps)
              \/ PRoute(MaxRouteSteps)

SpecPastryRoute == Init /\ [][PRouteNext]_vars

\* joins and leaves on a Chord ring and a Pastry network side by side
RepeatNext == \/ CBuildAny(MaxItems)
              \/ CJoin(MaxRepeat)
              \/ CLeave(MaxRepeat)
              \/ PBuildAny(MaxItems)
              \/ PJoin(MaxRepeat)
              \/ PLeave(MaxRepeat)

SpecRepeat == Init /\ [][RepeatNext]_vars


(***************************************************************************)
(* Properties                                                              *)
(***************************************************************************)
LiveIds == Range(c_nodes)
ChurnOnly == c_phase \in {"built", "churn"} /\ ~c_emptied /\ ~c_hung /\ c_nodes /= <<>>

\* C1 (Chord ownership): right after build, a lookup of a key of the initial
\* items, from any source peer or the default one, returns a non-empty list
\* and is served by the first live id >= hash(key), wrapping to the smallest.
C1_ChordOwnership ==
  (c_phase = "built" /\ c_last.op = "lookup" /\ c_last.key \in DOMAIN c_snap.look)
    => /\ c_last.res /= <<>>
       /\ c_last.owner = successor_in_sorted(hash_key(c_last.key, M), LiveIds)

\* C3 (Chord key conservation): after build followed only by graceful joins
\* and leaves that never remove the last peer, the bag of (key, value)
\* bindings over all peers equals the bag right after build and no key is
\* held by two peers.
C3_ChordConservation ==
  ChurnOnly
    => /\ StoresBag(c_store, LiveIds) = c_snap.bag
       /\ \A k \in Keys : Cardinality(Holders(c_store, k)) <= 1
       /\ \A k \in DOMAIN c_snap.look : Cardinality(Holders(c_store, k)) = 1

\* a join has handed a stored key over to the joining peer, after an earlier
\* join or leave
C3_Witness ==
  /\ ChurnOnly
  /\ c_last.op = "join"
  /\ steps >= 2
  /\ c_last.src % max_id \in LiveIds
  /\ \E k \in Keys : LsGet(c_store[c_last.src % max_id], k) /= <<>>

\* C5 (Chord hop count): the hops a client call returns equal the number of
\* find_successor messages forwarded from one peer to another (0 when the
\* source resolves the owner itself).
C5_ChordHops ==
  (c_last.op \in ClientOps /\ c_nodes /= <<>>) => c_last.hops = Len(c_last.path) - 1

\* C8 (Chord lookups stable under graceful churn): after build followed only
\* by graceful joins and leaves, lookup(k) from the default source returns
\* for every initially stored key the list it returned right after build.
C8_ChordLookupStable ==
  ChurnOnly
    => \A k \in DOMAIN c_snap.look :
         ChordClientOp(Ch, "lookup", k, <<>>, None).res = c_snap.look[k]

\* lookup(k) directly after insert(k, v) returned a list containing v
InsertThenLookup(last, prev) ==
  (/\ last.op = "lookup"
   /\ Len(prev) >= 1
   /\ prev[1].op = "insert"
   /\ prev[1].key = last.key)
    => InSeq(prev[1].value, last.res)

\* lookup(k) directly after insert(k, v); delete(k) returned the empty list
InsertDeleteThenLookup(last, prev) ==
  (/\ last.op = "lookup"
   /\ Len(prev) >= 2
   /\ prev[1].op = "delete"
   /\ prev[2].op = "insert"
   /\ prev[1].key = last.key
   /\ prev[2].key = last.key)
    => last.res = <<>>

\* C9 (insert/lookup round trip): on Chord and on Pastry, in any state after
\* build, a lookup(k) that directly follows insert(k, v) returns a list
\* containing v.
C9_InsertLookup ==
  InsertThenLookup(c_last, c_prev) /\ InsertThenLookup(p_last, p_prev)

\* C10 (insert/delete round trip): on Chord and on Pastry, in any state after
\* build, a lookup(k) that directly follows insert(k, v); delete(k) returns
\* the empty list, whatever k held before.
C10_InsertDeleteLookup ==
  InsertDeleteThenLookup(c_last, c_prev) /\ InsertDeleteThenLookup(p_last, p_prev)

PLiveIds == Range(p_nodes)
PChurnOnly == p_phase \in {"built", "churn"} /\ ~p_emptied /\ p_nodes /= <<>>

\* C2 (Pastry ownership): right after build, a lookup of any key from any
\* source peer is served by the live peer whose id is circularly closest to
\* hash(key), the lower id on a tie.
C2_PastryOwnership ==
  (p_phase = "built" /\ p_last.op = "lookup")
    => p_last.owner = closest_live(hash_key(p_last.key, M), PLiveIds)

\* C4 (Pastry key conservation): after build followed only by graceful joins
\* and leaves that never remove the last peer (id 0 among the peers), the bag
\* of (key, value) bindings over all peers equals the bag right after build
\* and every stored key is held by exactly one peer.
C4_PastryConservation ==
  PChurnOnly
    => /\ StoresBag(p_store, PLiveIds) = p_snap.bag
       /\ \A k \in Keys : Cardinality(Holders(p_store, k)) <= 1
       /\ \A k \in DOMAIN p_snap.look : Cardinality(Holders(p_store, k)) = 1

\* C6 (Pastry hop count): the hops a Pastry client call returns equal the
\* number of route messages forwarded between peers for that call; the
\* store-op message to the owner adds nothing.
C6_PastryHops ==
  (p_last.op \in ClientOps /\ p_nodes /= <<>>) => p_last.hops = Len(p_last.path) - 1

\* a client call that was forwarded at least once has returned
C6_Witness ==
  /\ p_last.op \in ClientOps
  /\ Len(p_last.path) >= 2
  /\ p_last.hops >= 1

\* C7 (no leakage between overlapping calls): a lookup that ran while another
\* thread was inside its own lookup returns as its hop count the number of
\* routing messages of that lookup alone: its forwards from peer to peer, or
\* those plus the first message the source sends to itself (which a lookup
\* run alone counts too).
C7_NoHopLeak ==
  \A t \in Threads :
    t_pc[t] = "done" => t_ret[t].hops \in {t_sent[t] - 1, t_sent[t]}


\* C11 (repeated churn calls are no-ops): on Chord and on Pastry, in every
\* state, join(id) for an id that is live modulo 2^m and leave(id) for an id
\* that is not live return 0 and leave the routing state, the indexes, the
\* transport registry and the hop counter as they were.
C11_RepeatedChurnNoop ==
  \A x \in JoinIds, graceful \in BOOLEAN :
    /\ InSeq(x % max_id, c_nodes) => ChordJoin(Ch, x) = [ch |-> Ch, hops |-> 0]
    /\ ~InSeq(x % max_id, c_nodes)
         => ChordLeave(Ch, x, graceful) = [ch |-> Ch, hops |-> 0, hung |-> FALSE]
    /\ InSeq(x % max_id, p_nodes) => PastryJoin(Pa, x) = {[pa |-> Pa, hops |-> 0]}
    /\ ~InSeq(x % max_id, p_nodes)
         => PastryLeave(Pa, x, graceful) = [pa |-> Pa, hops |-> 0]

\* a leave of an absent id on Chord and a join of a live id on Pastry have
\* returned 0 while the hop counters still hold the hops of earlier calls
C11_Witness ==
  /\ c_last.op = "leave"
  /\ c_last.src % max_id \notin LiveIds
  /\ c_last.hops = 0
  /\ c_hops > 0
  /\ p_last.op = "join"
  /\ p_last.hops = 0
  /\ p_hops > 0


\* C12 (Chord routing terminates): find_successor(target) started at any
\* live peer returns; every forward goes to a peer strictly inside the open
\* arc (current, target), so it forwards fewer times than there are live
\* peers whatever live peers the fingers name; and on a ring whose routing
\* state comes from build, join and leave it forwards at most m times.
C12_ChordRoutingTerminates ==
  c_last.op = "find_successor"
    => /\ c_last.owner /= None
       /\ \A i \in 2 .. Len(c_last.path) :
            _in_range(c_last.path[i], c_last.path[i - 1], c_last.value, FALSE, FALSE)
       /\ Len(c_last.path) - 1 < Len(c_nodes)
       /\ c_phase \in {"built", "churn"} => Len(c_last.path) - 1 <= M

\* find_successor has forwarded twice on a ring of MinRing peers or more
\* that went through a join or a leave
C12_Witness ==
  /\ c_last.op = "find_successor"
  /\ c_phase = "churn"
  /\ Len(c_nodes) >= MinRing
  /\ Len(c_last.path) - 1 >= 2


\* the peers known to n that _rare_case_routing may forward to: not n, not
\* visited, with a longer prefix shared with the key than n, or the same
\* prefix and a smaller circular distance to the key
RouteQualifying(n, key, visited) ==
  {c \in Range(iterate_known_nodes(Pa, n)) \ (visited \cup {n}) :
     \/ _shared_prefix_length(c, key) > _shared_prefix_length(n, key)
     \/ /\ _shared_prefix_length(c, key) = _shared_prefix_length(n, key)
        /\ _circular_distance(c, key) < _circular_distance(n, key)}

\* the route request p_last ended at peer n, which had nobody to forward to
RouteExhaustedAt(n, key, visited) ==
  /\ ~_is_in_leaf_set_range(Pa, n, key)
  /\ RouteEntry(Pa, n, key, _shared_prefix_length(n, key)) \in visited \cup {n, None}
  /\ RouteQualifying(n, key, visited) = {}

\* C13 (Pastry routing is loop-free): whatever live peers the leaf sets and
\* routing tables name, a route request started at a live peer is handled
\* by no peer twice, so it is forwarded at most (live peers - 1) times, one
\* counted hop per forward; and when the peer it ends at has the key outside
\* its leaf-set range and no unvisited peer to forward to, that peer is the
\* owner returned.
C13_PastryRouteLoopFree ==
  p_last.op = "route"
    => /\ \A i, j \in 1 .. Len(p_last.path) : i /= j => p_last.path[i] /= p_last.path[j]
       /\ Range(p_last.path) \subseteq PLiveIds
       /\ Len(p_last.path) - 1 <= Len(p_nodes) - 1
       /\ p_last.hops = Len(p_last.path) - 1
       /\ RouteExhaustedAt(p_last.path[Len(p_last.path)], p_last.value, Range(p_last.path))
            => p_last.owner = p_last.path[Len(p_last.path)]

\* on a network whose routing state was overwritten, a route request was
\* forwarded and ended at a peer with nobody left to forward to
C13_Witness ==
  /\ p_last.op = "route"
  /\ p_phase = "mixed"
  /\ Len(p_last.path) >= 2
  /\ RouteExhaustedAt(p_last.path[Len(p_last.path)], p_last.value, Range(p_last.path))


\* C14 (transport hop counter): a send to a registered id returns what the
\* handler registered for that id returns for the message and adds one to
\* total_hops when count_hop is true and nothing when it is false; a send to
\* an id that is not registered fails with an error and adds nothing; and
\* no call other than reset_counters lowers the counter.
C14_TransportHopCounter ==
  /\ n_last.op = "send" /\ n_last.dst \in DOMAIN n_nodes
       => /\ n_last.raised = ""
          /\ n_last.reply = Handle(n_nodes[n_last.dst],
                                   [dst_id |-> n_last.dst, data |-> n_last.reply.msg.data])
          /\ n_total_hops = n_last.before + (IF n_last.count_hop THEN 1 ELSE 0)
  /\ n_last.op = "send" /\ n_last.dst \notin DOMAIN n_nodes
       => /\ n_last.raised = "ValueError"
          /\ n_total_hops = n_last.before
  /\ n_last.op \notin {"send", "reset_counters"} => n_total_hops = n_last.before
  /\ n_last.op /= "reset_counters" => n_total_hops >= n_last.before

\* an uncounted send to a registered id has returned after counted sends
C14_Witness ==
  /\ n_last.op = "send"
  /\ n_last.dst \in DOMAIN n_nodes
  /\ ~n_last.count_hop
  /\ n_last.raised = ""
  /\ n_total_hops >= 2


\* C15 (both transports measure the same hops): a lookup issued at a peer
\* whose server talks to the other peers over HTTP returns the hop count
\* the same lookup returns on the in-memory bus, which is the number of
\* find_successor messages forwarded along the whole path to the owner.
C15_SameHopsOnBothTransports ==
  d_last.op = "node_lookup"
    => /\ d_last.hops = ChordNodeLookup(Ch, d_last.src, d_last.key).hops
       /\ d_last.hops = Len(d_last.path) - 1

(***************************************************************************)
(* A LocalStorage driven directly: put, delete and update in any order.    *)
(***************************************************************************)
LocalKeys == {"chi", "omega", "psi", "rho"}
LocalUpdateLists == SeqsUpTo(Values, MaxUpdateLen)

LocalCall(store, op, key, values) ==
  /\ l_store' = store
  /\ l_prev' = l_store
  /\ l_last' = [op |-> op, key |-> key, values |-> values]
  /\ steps' = steps + 1
  /\ UNCHANGED <<cvars, pvars, tvars, nvars, dvars, kvars, fvars, gvars, hvars, ovars>>

LPut(limit) ==
  /\ steps < limit
  /\ \E key \in LocalKeys, value \in Values :
       LocalCall(LsPut(l_store, key, value), "put", key, <<value>>)

LDelete(limit) ==
  /\ steps < limit
  /\ \E key \in LocalKeys :
       LocalCall(LsDelete(l_store, key), "delete", key, <<>>)

LUpdate(limit) ==
  /\ steps < limit
  /\ \E key \in LocalKeys, values \in LocalUpdateLists :
       LocalCall(LsUpdate(l_store, key, values), "update", key, values)

LocalNext ==
  \/ LPut(MaxLocalOps)
  \/ LDelete(MaxLocalOps)
  \/ LUpdate(MaxLocalOps)

SpecLocal == Init /\ [][LocalNext]_vars

\* C16: put(k, v) makes get(k) its previous result with exactly one v
\* appended at the end (a one-element list if k was absent) and leaves the
\* value list of every other key unchanged, in every state reachable through
\* put, delete and update.
C16_PutAppendsOne ==
  l_last.op = "put"
    => /\ LsGet(l_store, l_last.key) = LsGet(l_prev, l_last.key) \o l_last.values
       /\ \A k \in LocalKeys \ {l_last.key} : LsGet(l_store, k) = LsGet(l_prev, k)

IsAscending(keys) == \A i \in 1 .. (Len(keys) - 1) : KeyLt(keys[i], keys[i + 1])

\* C17: after any sequence of put, delete and update, get_all_keys() returns
\* the stored keys in ascending lexicographic order and get_all_items() returns
\* the (key, value-list) pairs in the same key order.
C17_EnumerationAscending ==
  /\ IsAscending(LsGetAllKeys(l_store))
  /\ [i \in 1 .. Len(LsGetAllItems(l_store)) |-> LsGetAllItems(l_store)[i][1]]
       = LsGetAllKeys(l_store)

\* C18: after any sequence of put, delete and update (update with an empty
\* list included), every key reported by get_all_keys() / get_all_items() maps
\* to a non-empty value list, and get(k) is empty exactly for the keys that are
\* not reported.
C18_ValueListsNonEmpty ==
  /\ \A i \in 1 .. Len(LsGetAllItems(l_store)) : LsGetAllItems(l_store)[i][2] /= <<>>
  /\ \A k \in LocalKeys :
       (LsGet(l_store, k) = <<>>) <=> ~InSeq(k, LsGetAllKeys(l_store))

(***************************************************************************)
(* A DHT constructed with any configuration and then built.  Only what a   *)
(* configuration error is about is kept: the exception raised, the peers   *)
(* in self.nodes and the ids registered with the transport.                *)
(***************************************************************************)
ConfigMs == 0 .. MaxConfigM
ConfigBs == 0 .. MaxConfigB
ConfigIds == {0, 1, 5}
ConfigIdLists == SeqsUpTo(ConfigIds, MaxConfigIds)

\* Chord.__init__(m): four assignments, nothing is checked
ChordNew(m) == [cfg |-> [kind |-> "chord", m |-> m, b |-> 0], raised |-> "none"]

\* Pastry.__init__(m, b): num_digits = (m + b - 1) // b divides by b, nothing
\* else is checked
PastryNew(m, b) ==
  [cfg |-> [kind |-> "pastry", m |-> m, b |-> b],
   raised |-> IF b = 0 THEN "ZeroDivisionError" ELSE "none"]

\* Chord.build / Pastry.build up to the creation of the peers: an empty list
\* raises ValueError, otherwise a peer is created and registered for every
\* nid % 2^m
BuildCreate(cfg, node_ids) ==
  IF node_ids = <<>>
  THEN [raised |-> "ValueError", peers |-> {}]
  ELSE [raised |-> "none", peers |-> {node_ids[i] % (2 ^ cfg.m) : i \in 1 .. Len(node_ids)}]

ConfigOnly == UNCHANGED <<cvars, pvars, tvars, nvars, dvars, lvars, fvars, gvars, hvars, ovars, steps>>

KConstruct(init) ==
  /\ k_cfg.kind = "none"
  /\ k_cfg' = init.cfg
  /\ k_raised' = init.raised
  /\ k_last' = [op |-> "init", node_ids |-> <<>>]
  /\ UNCHANGED <<k_peers, k_reg>>
  /\ ConfigOnly

KChord == \E m \in ConfigMs : KConstruct(ChordNew(m))

KPastry == \E m \in ConfigMs, b \in ConfigBs : KConstruct(PastryNew(m, b))

\* build on the DHT that was constructed (there is none if the constructor raised)
KBuild ==
  /\ k_cfg.kind /= "none"
  /\ k_raised = "none"
  /\ k_last.op = "init"
  /\ \E node_ids \in ConfigIdLists :
       /\ \E r \in {BuildCreate(k_cfg, node_ids)} :
            /\ k_raised' = r.raised
            /\ k_peers' = k_peers \cup r.peers
            /\ k_reg' = k_reg \cup r.peers
       /\ k_last' = [op |-> "build", node_ids |-> node_ids]
  /\ UNCHANGED k_cfg
  /\ ConfigOnly

ConfigNext == KChord \/ KPastry \/ KBuild

SpecConfig == Init /\ [][ConfigNext]_vars

InvalidConfig(cfg) ==
  \/ cfg.m < 1
  \/ cfg.kind = "pastry" /\ (cfg.b < 1 \/ cfg.b > cfg.m)

\* C19: build with an empty node-id list, and a DHT configured with m < 1,
\* b < 1 or b > m, fail with a configuration error (at construction or, at
\* the latest, at build), and after the failure no peer has been created or
\* registered with the transport.
C19_InvalidConfigRejected ==
  /\ (k_last.op = "build" /\ (InvalidConfig(k_cfg) \/ k_last.node_ids = <<>>))
       => k_raised /= "none"
  /\ k_raised /= "none" => (k_peers = {} /\ k_reg = {})

(***************************************************************************)
(* Pastry over a transport whose send can raise (DistributedNetwork.send   *)
(* re-raises every HTTP failure): a join during which the delivery of      *)
(* notify_arrival to the peers in `failing` raises.                        *)
(***************************************************************************)
RECURSIVE NotifyUntilRaise(_, _, _, _, _)
\* the loop of _broadcast_arrival over targets in one iteration order: the
\* first send that raises ends the loop, nothing catches the exception
NotifyUntilRaise(pa, n, order, failing, notified) ==
  IF order = <<>> THEN [pa |-> pa, notified |-> notified, raised |-> FALSE]
  ELSE IF Head(order) \in failing THEN [pa |-> pa, notified |-> notified, raised |-> TRUE]
  ELSE NotifyUntilRaise(_handle_notify_arrival(pa, Head(order), n), n, Tail(order), failing,
                        notified \cup {Head(order)})

JoinOutcome(pa, hops, raised, targets, notified, requested) ==
  [pa |-> pa, hops |-> hops, raised |-> raised, targets |-> targets,
   notified |-> notified, requested |-> requested]

\* _bootstrap step 4 after a broadcast that returned
FaultyDonate(pa, n, result, targets, notified) ==
  {JoinOutcome(r.pa, r.hops, FALSE, targets, notified, BootstrapDonors(pa, n, result)) :
     r \in BootstrapDonate(pa, n, result)}

\* _bootstrap after _broadcast_arrival: the exception leaves _bootstrap and join
FaultyAfterBroadcast(b, n, result, targets) ==
  IF b.raised
  THEN {JoinOutcome(b.pa, None, TRUE, targets, b.notified, {})}
  ELSE FaultyDonate(b.pa, n, result, targets, b.notified)

\* _bootstrap step 3, for every iteration order of targets
FaultyBroadcast(pa, n, result, failing) ==
  UNION {FaultyAfterBroadcast(NotifyUntilRaise(pa, n, order, failing, {}), n, result,
                              ArrivalTargets(pa, n)) :
         order \in SetOrders(ArrivalTargets(pa, n))}

\* _bootstrap steps 2 to 4
FaultyBootstrapFrom(pa, n, result, failing) ==
  UNION {FaultyBroadcast(AddCandidates(BootstrapHarvest(pa, n, result), n, cand_order),
                         n, result, failing) :
         cand_order \in SetOrders(BootstrapCandidates(result))}

\* Pastry.join when notify_arrival cannot be delivered to the peers in failing
PastryJoinFaulty(pa, new_node_input, failing) ==
  LET new_node_id == new_node_input % max_id
  IN  IF InSeq(new_node_id, pa.nodes) THEN {JoinOutcome(pa, 0, FALSE, {}, {}, {})}
      ELSE IF pa.nodes = <<>>
      THEN {JoinOutcome(_register_node(pa, new_node_id), 0, FALSE, {}, {}, {})}
      ELSE FaultyBootstrapFrom([_register_node(pa, new_node_id) EXCEPT !.hops = 0],
                               new_node_id,
                               BootstrapResult([_register_node(pa, new_node_id) EXCEPT !.hops = 0],
                                               new_node_id, pa.nodes[1]),
                               failing)

PJoinFaulty(limit) ==
  \E x \in JoinIds, failing \in SUBSET PeerIds :
    /\ p_phase /= "init"
    /\ steps < limit
    /\ (Len(p_nodes) < MaxLive \/ InSeq(x % max_id, p_nodes))
    /\ \E r \in PastryJoinFaulty(Pa, x, failing) :
         /\ SetPa(r.pa)
         /\ p_last' = [NoCall EXCEPT !.op = "join", !.src = x, !.hops = r.hops]
         /\ p_phase' = IF r.raised THEN "mixed"
                       ELSE IF p_phase = "built" THEN "churn" ELSE p_phase
         /\ f_last' = [op |-> "join", targets |-> r.targets, failing |-> failing,
                       notified |-> r.notified, raised |-> r.raised,
                       requested |-> r.requested, hops |-> r.hops]
    /\ p_prev' = <<>>
    /\ steps' = steps + 1
    /\ UNCHANGED <<p_emptied, p_snap>>
    /\ UNCHANGED <<cvars, tvars, nvars, dvars, lvars, kvars, gvars, hvars, ovars>>

PFaultsNext == \/ PBuildAny(MaxChurnItems)
               \/ PJoinFaulty(MaxFaultChurn)
               \/ PLeave(MaxFaultChurn)

SpecPastryFaults == Init /\ [][PFaultsNext]_vars

\* C20: if delivering notify_arrival to one target fails during a Pastry join,
\* the join is not aborted: the remaining targets are still notified, the key
\* transfer still happens and join returns its hop count.
C20_NotifyArrivalBestEffort ==
  (f_last.op = "join" /\ f_last.targets \cap f_last.failing /= {})
    => /\ ~f_last.raised
       /\ f_last.notified = f_last.targets \ f_last.failing
       /\ f_last.requested /= {}
       /\ f_last.hops /= None

(***************************************************************************)
(* Chord ring state after build, join and leave                            *)
(***************************************************************************)
\* the last live id below h, wrapping to the largest
predecessor_in_sorted(h, ids) ==
  IF \E x \in ids : x < h THEN SetMax({x \in ids : x < h}) ELSE SetMax(ids)

AfterChordCall == c_last.op \in {"build", "join", "leave"} /\ ~c_hung /\ c_nodes /= <<>>

\* C21 (Chord finger invariant): after every build, join and leave (a join
\* into an empty DHT included), for every live peer n and every i in [0, m),
\* finger_table[i].node is the first live id >= (n + 2^i) mod 2^m (wrapping to
\* the smallest live id), and successor = finger_table[0].node.
C21_ChordFingerInvariant ==
  AfterChordCall
    => \A n \in LiveIds :
         /\ \A i \in 0 .. (M - 1) :
              c_finger[n][i] = successor_in_sorted(FingerStart(n, i), LiveIds)
         /\ c_succ[n] = c_finger[n][0]

\* C22 (Chord ring pointers): after every build, join and leave that leaves
\* at least one peer, successor(p) is the next live peer clockwise and
\* predecessor(p) the previous one for every live peer p; a single-peer ring
\* has successor = predecessor = self and a second peer joining makes the two
\* point to each other in both directions within that join.
C22_ChordRingPointers ==
  AfterChordCall
    => \A p \in LiveIds :
         /\ c_succ[p] = successor_in_sorted((p + 1) % max_id, LiveIds)
         /\ c_pred[p] = predecessor_in_sorted(p, LiveIds)

\* a second peer has joined a single-peer ring and the two point to each
\* other in both directions
C22_Witness ==
  /\ c_last.op = "join"
  /\ ~c_hung
  /\ Len(c_nodes) = 2
  /\ c_nodes[2] = c_last.src % max_id
  /\ c_succ[c_nodes[1]] = c_nodes[2] /\ c_pred[c_nodes[1]] = c_nodes[2]
  /\ c_succ[c_nodes[2]] = c_nodes[1] /\ c_pred[c_nodes[2]] = c_nodes[1]

(***************************************************************************)
(* Chord join hand-off                                                     *)
(***************************************************************************)
\* the ids of the half-open arc (a, b], clockwise from a
ArcIds(a, b) == {(a + d) % max_id : d \in 1 .. ((b - a) % max_id)}

\* this step is a join of a new peer into a ring that has peers
ChordJoinStep ==
  /\ c_last'.op = "join"
  /\ c_nodes /= <<>>
  /\ Len(c_nodes') = Len(c_nodes) + 1

\* the bindings of store s for key k when k is among ks, none otherwise
BindingsIf(s, k, ks) == IF k \in ks THEN LsGet(s, k) ELSE <<>>

ChordJoinHandsOff(new, pred, succ) ==
  \E moved \in {{k \in Keys : /\ LsGet(c_store[succ], k) /= <<>>
                               /\ hash_key(k, M) \in ArcIds(pred, new)}} :
    /\ \A k \in Keys :
         /\ LsGet(c_store'[new], k) = BindingsIf(c_store[succ], k, moved)
         /\ LsGet(c_store'[succ], k) = BindingsIf(c_store[succ], k, Keys \ moved)
    /\ \A n \in LiveIds \ {succ} : c_store'[n] = c_store[n]

\* C23 (Chord join handoff): after join(new) into a ring with at least one
\* peer, where pred and succ are the ring neighbours of new, the index of new
\* holds exactly the bindings (with all their values) that succ held before
\* the join and whose hashed id lies in the arc (pred, new], succ holds exactly
\* its other bindings, and no other peer's index changed.
C23_ChordJoinHandoff ==
  [][ChordJoinStep
       => ChordJoinHandsOff(c_last'.src % max_id,
                            predecessor_in_sorted(c_last'.src % max_id, LiveIds),
                            successor_in_sorted(c_last'.src % max_id, LiveIds))]_vars

\* a join has moved a key with two values from the successor to the new peer
C23_Witness ==
  /\ c_last.op = "join"
  /\ ~c_hung
  /\ Len(c_nodes) >= 2
  /\ c_nodes[Len(c_nodes)] = c_last.src % max_id
  /\ \E k \in Keys : Len(LsGet(c_store[c_last.src % max_id], k)) >= 2

(***************************************************************************)
(* Pastry routing state after build, join and leave                        *)
(***************************************************************************)
AfterPastryCall == p_last.op \in {"build", "join", "leave"} /\ p_nodes /= <<>>

\* id e may sit in cell [r][c] of the table of peer n
CellFits(n, r, c, e) ==
  /\ e \in PLiveIds
  /\ e /= n
  /\ \A i \in 0 .. (r - 1) : Digit(e, i) = Digit(n, i)
  /\ Digit(e, r) = c

LeafRing == 2 ^ LeafBits
LeafStartIds == {0, 5}
LeafOthers == {1, 2, 3, 4, 6, 7, 9, 11, 13, 14, 15}

GHalves == [smaller |-> g_smaller, larger |-> g_larger]

GOnly == UNCHANGED <<cvars, pvars, tvars, nvars, dvars, lvars, kvars, fvars, hvars, ovars>>

\* PastryNode.__init__: empty halves
GStart ==
  /\ p_phase = "init"
  /\ g_n = None
  /\ \E n \in LeafStartIds : g_n' = n
  /\ g_last' = [op |-> "init", other |-> None]
  /\ UNCHANGED <<g_smaller, g_larger, g_live, steps>>
  /\ GOnly

\* _handle_notify_arrival / _bootstrap: _add_to_leaf_set(node, other)
GArrive(limit) ==
  /\ g_n /= None
  /\ steps < limit
  /\ \E other \in LeafOthers \cup {g_n} :
       /\ \E h \in {LeafSetAdd(GHalves, g_n, other, LeafRing)} :
            /\ g_smaller' = h.smaller
            /\ g_larger' = h.larger
       /\ g_live' = g_live \cup ({other} \ {g_n})
       /\ g_last' = [op |-> "arrive", other |-> other]
  /\ steps' = steps + 1
  /\ UNCHANGED g_n
  /\ GOnly

\* the scrub loop of Pastry.leave at this peer, for a departing live peer
GDepart(limit) ==
  /\ g_n /= None
  /\ steps < limit
  /\ \E other \in g_live :
       /\ g_smaller' = RemoveFirst(g_smaller, other)
       /\ g_larger' = RemoveFirst(g_larger, other)
       /\ g_live' = g_live \ {other}
       /\ g_last' = [op |-> "depart", other |-> other]
  /\ steps' = steps + 1
  /\ UNCHANGED g_n
  /\ GOnly

\* either the peer alone or the network of 2^M ids runs, never both in a run
LeafNext ==
  \/ GStart
  \/ GArrive(MaxLeafCalls)
  \/ GDepart(MaxLeafCalls)
  \/ (g_n = None /\ PBuildAny(MaxChurnItems))
  \/ PJoin(MaxChurn)
  \/ PLeave(MaxChurn)

SpecLeafSets == Init /\ [][LeafNext]_vars

NoDuplicates(s) == \A i, j \in 1 .. Len(s) : i /= j => s[i] /= s[j]
SortedBy(s, kf) == \A i \in 1 .. (Len(s) - 1) : kf[s[i]] <= kf[s[i + 1]]

\* the two halves of peer n are well formed on a ring of the given size
LeafHalvesOk(smaller, larger, n, live, ring) ==
  /\ Len(smaller) <= LEAF_HALF /\ Len(larger) <= LEAF_HALF
  /\ Range(smaller) \cup Range(larger) \subseteq live \ {n}
  /\ NoDuplicates(smaller \o larger)
  /\ SortedBy(smaller, [x \in 0 .. (ring - 1) |-> (n - x) % ring])
  /\ SortedBy(larger, [x \in 0 .. (ring - 1) |-> (x - n) % ring])

\* C25 (Pastry leaf-set invariant): after every build, join and leave, for
\* every live peer each of leaf_smaller and leaf_larger has at most
\* L/2 = 4 entries, contains only live peers other than self with no
\* duplicates and no peer in both halves, and leaf_smaller is sorted by
\* increasing counter-clockwise distance from self and leaf_larger by
\* increasing clockwise distance.
C25_PastryLeafInvariant ==
  /\ AfterPastryCall
       => \A n \in PLiveIds :
            LeafHalvesOk(p_leaf_smaller[n], p_leaf_larger[n], n, PLiveIds, max_id)
  /\ g_n /= None => LeafHalvesOk(g_smaller, g_larger, g_n, g_live, LeafRing)

\* a peer arrives on the clockwise side of a peer that already knows more
\* than L/2 live peers on that side and holds L/2 of them
C25_Witness ==
  /\ g_n /= None
  /\ g_last.op = "arrive"
  /\ Len(g_larger) = LEAF_HALF
  /\ g_smaller /= <<>>
  /\ Cardinality({x \in g_live : (x - g_n) % LeafRing <= (g_n - x) % LeafRing}) > LEAF_HALF

(***************************************************************************)
(* Pastry join                                                             *)
(***************************************************************************)
\* this step is a join of a new peer into a network that has peers
PastryJoinStep ==
  /\ p_last'.op = "join"
  /\ p_nodes /= <<>>
  /\ Len(p_nodes') = Len(p_nodes) + 1

\* the reply to the join_route message of join(x) sent to peer bootstrap_id
JoinRouteReply(x, bootstrap_id) ==
  BootstrapResult([_register_node(Pa, x) EXCEPT !.hops = 0], x, bootstrap_id)

\* C26 (Pastry join finds the closest peer): in join(X) into a network with
\* at least one existing peer, started at any bootstrap peer, the peer Z that
\* answers the join_route message is the existing live peer numerically
\* closest to X (ties broken by lower id).
C26_PastryJoinFindsClosest ==
  [][PastryJoinStep
       => \A bootstrap_id \in PLiveIds :
            JoinRouteReply(p_last'.src % max_id, bootstrap_id).z_node
              = closest_live(p_last'.src % max_id, PLiveIds)]_vars

\* after this step the leaf halves of x and of z name each other
LinkedAfter(x, z) ==
  /\ InSeq(z, p_leaf_smaller'[x] \o p_leaf_larger'[x])
  /\ InSeq(x, p_leaf_smaller'[z] \o p_leaf_larger'[z])

\* C27 (Pastry join links X and Z): after join(X) into a network with at
\* least one existing peer completes, for any peer ids in [0, 2^m) (id 0
\* included), X's leaf set contains Z and Z's leaf set contains X, Z being the
\* peer that answered the join_route message.
C27_PastryJoinLinksXZ ==
  [][PastryJoinStep
       => LinkedAfter(p_last'.src % max_id,
                      JoinRouteReply(p_last'.src % max_id, p_nodes[1]).z_node)]_vars

\* key id h is closer to x than to z, x winning a tie when its id is lower
CloserTo(h, x, z) ==
  \/ circular_distance(h, x) < circular_distance(h, z)
  \/ (circular_distance(h, x) = circular_distance(h, z) /\ x < z)

\* across this step the bindings of z that are closer to x moved to x, with
\* all their values, and the others stayed on z
PastryJoinHandsOff(x, z) ==
  \A k \in Keys :
    IF LsGet(p_store[z], k) /= <<>> /\ CloserTo(hash_key(k, M), x, z)
    THEN /\ SeqBag(LsGet(p_store[z], k)) \sqsubseteq SeqBag(LsGet(p_store'[x], k))
         /\ LsGet(p_store'[z], k) = <<>>
    ELSE LsGet(p_store'[z], k) = LsGet(p_store[z], k)

\* C28 (Pastry join handoff): after join(X) with closest peer Z, every binding
\* that Z held before the join and whose hashed id is numerically closer to X
\* than to Z (ties broken by lower id) is stored at X with all its values and
\* is no longer stored at Z, and every other binding of Z is still stored at Z.
C28_PastryJoinHandoff ==
  [][PastryJoinStep
       => PastryJoinHandsOff(p_last'.src % max_id,
                             JoinRouteReply(p_last'.src % max_id, p_nodes[1]).z_node)]_vars

(***************************************************************************)
(* Pastry graceful leave                                                   *)
(***************************************************************************)
\* this step is a leave of a live peer that leaves at least one peer behind
PastryLeaveStep ==
  /\ p_last'.op = "leave"
  /\ Len(p_nodes') = Len(p_nodes) - 1
  /\ p_nodes' /= <<>>

\* the peers of d's leaf set that remain when d has left
RemainingLeaves(d) == (Range(leaf_set(Pa, d)) \cap PLiveIds) \ {d}

\* across this step every binding of d went to the closest remaining peer of
\* d's leaf set
PastryLeaveHandsOff(d) ==
  \A k \in Keys :
    LsGet(p_store[d], k) /= <<>>
      => /\ RemainingLeaves(d) /= {}
         /\ SeqBag(LsGet(p_store[d], k))
              \sqsubseteq SeqBag(LsGet(p_store'[closest_live(hash_key(k, M),
                                                            RemainingLeaves(d))], k))

\* C29 (Pastry graceful leave hands off every binding): after
\* leave(d, graceful=true) with at least one remaining peer, each binding that
\* d held is stored on the remaining peer of d's leaf set that is numerically
\* closest to the key's hashed id (ties broken by lower id), for any peer ids
\* including 0, and no binding of d is dropped.
C29_PastryLeaveHandsOff ==
  [][PastryLeaveStep => PastryLeaveHandsOff(p_last'.src % max_id)]_vars

(***************************************************************************)
(* Key hand-off statement by statement.  A join or a graceful leave is run *)
(* as the sequence of its storage calls and messages: the statements up to *)
(* the hand-off, then one step per storage.put, per transfer_keys message  *)
(* and per delete message, then the statements after the hand-off.         *)
(***************************************************************************)
MaxHandoffs == 2       \* joins and leaves begun in one behaviour

HChordOnly == UNCHANGED <<pvars, tvars, nvars, dvars, lvars, kvars, fvars, gvars, ovars>>
HPastryOnly == UNCHANGED <<cvars, tvars, nvars, dvars, lvars, kvars, fvars, gvars, ovars>>

RECURSIVE PutsOf(_, _)
\* for key, values in items: for value in values: <peer>.storage.put(key, value)
PutsOf(items, peer) ==
  IF items = <<>> THEN <<>>
  ELSE [i \in 1 .. Len(Head(items)[2]) |-> <<Head(items)[1], Head(items)[2][i], peer>>]
         \o PutsOf(Tail(items), peer)

\* the items ChordNode._transfer_keys selects
ItemsInArc(s, start, end) == _transfer_keys_keeping(s, start, end).items

HIdle ==
  /\ h_pc' = "idle"
  /\ h_todo' = <<>> /\ h_take' = <<>> /\ h_donors' = <<>> /\ h_moving' = <<>>

\* Chord.join up to _rebuild_fingers() (chord.py 527-568)
HCJoinBegin(limit) ==
  \E x \in JoinIds :
    /\ c_phase /= "init" /\ ~c_hung
    /\ h_pc = "idle"
    /\ steps < limit
    /\ (Len(c_nodes) < MaxLive \/ InSeq(x % max_id, c_nodes))
    /\ \E new \in {x % max_id} :
         IF InSeq(new, c_nodes) \/ c_nodes = <<>>
         THEN /\ SetCh(ChordJoin(Ch, x).ch)
              /\ h_call' = [NoHandoff EXCEPT !.dht = "chord", !.op = "join", !.node = new]
              /\ HIdle
         ELSE \E r \in {Chord_find_successor(ChordNodeNew([Ch EXCEPT !.hops = 0], new),
                                             new, c_nodes[1])} :
                /\ SetCh(JoinLinked(ChordNodeNew([Ch EXCEPT !.hops = 0], new), new, r))
                /\ h_call' = [dht |-> "chord", op |-> "join", node |-> new,
                              peer |-> r.owner, start |-> c_pred[r.owner]]
                /\ h_pc' = "c_transfer"
                /\ h_moving' = ItemsInArc(c_store[r.owner], c_pred[r.owner], new)
                /\ h_todo' = <<>> /\ h_take' = <<>> /\ h_donors' = <<>>
    /\ c_last' = [NoCall EXCEPT !.op = "join", !.src = x]
    /\ c_phase' = IF c_phase = "built" THEN "churn" ELSE c_phase
    /\ c_prev' = <<>>
    /\ steps' = steps + 1
    /\ UNCHANGED <<c_hung, c_emptied, c_snap>>
    /\ HChordOnly

\* the transfer_keys message of Chord.join (chord.py 570-577): the successor
\* runs ChordNode._transfer_keys (165-181) and replies with the items
HCTransfer ==
  /\ h_pc = "c_transfer"
  /\ \E t \in {_transfer_keys(c_store[h_call.peer], h_call.start, h_call.node)} :
       /\ c_store' = [c_store EXCEPT ![h_call.peer] = t.store]
       /\ h_todo' = PutsOf(t.items, h_call.node)
  /\ c_hops' = NetSend(c_hops, FALSE)
  /\ h_pc' = "c_join_put"
  /\ UNCHANGED <<c_nodes, c_succ, c_pred, c_finger, c_reg, c_hung, c_phase, c_emptied,
                 c_snap, c_last, c_prev, h_call, h_take, h_donors, h_moving, steps>>
  /\ HChordOnly

\* one storage.put of a hand-off loop of Chord (chord.py 580-582, 601-603)
HCPut ==
  /\ h_pc \in {"c_join_put", "c_leave_put"}
  /\ h_todo /= <<>>
  /\ c_store' = [c_store EXCEPT ![Head(h_todo)[3]] = LsPut(@, Head(h_todo)[1], Head(h_todo)[2])]
  /\ h_todo' = Tail(h_todo)
  /\ UNCHANGED <<c_nodes, c_succ, c_pred, c_finger, c_reg, c_hops, c_hung, c_phase,
                 c_emptied, c_snap, c_last, c_prev, h_pc, h_call, h_take, h_donors,
                 h_moving, steps>>
  /\ HChordOnly

\* Chord.join returns stats['total_hops'] (chord.py 584-585)
HCJoinReturn ==
  /\ h_pc = "c_join_put"
  /\ h_todo = <<>>
  /\ c_last' = [c_last EXCEPT !.hops = c_hops]
  /\ h_pc' = "idle"
  /\ UNCHANGED <<c_nodes, c_succ, c_pred, c_finger, c_store, c_reg, c_hops, c_hung, c_phase,
                 c_emptied, c_snap, c_prev, h_call, h_todo, h_take, h_donors, h_moving, steps>>
  /\ HChordOnly

\* Chord.leave up to all_items = node.storage.get_all_items() (chord.py 587-600)
HCLeaveBegin(limit) ==
  \E x \in JoinIds :
    /\ c_phase /= "init" /\ ~c_hung
    /\ h_pc = "idle"
    /\ steps < limit
    /\ \E node \in {x % max_id} :
         IF ~InSeq(node, c_nodes) \/ LeaveHangs(Ch, node, TRUE)
         THEN /\ SetCh(ChordLeave(Ch, x, TRUE).ch)
              /\ c_hung' = ChordLeave(Ch, x, TRUE).hung
              /\ h_call' = [NoHandoff EXCEPT !.dht = "chord", !.op = "leave", !.node = node]
              /\ HIdle
         ELSE /\ SetCh([Ch EXCEPT !.hops = 0])
              /\ c_hung' = FALSE
              /\ h_call' = [dht |-> "chord", op |-> "leave", node |-> node,
                            peer |-> c_succ[node], start |-> c_pred[node]]
              /\ h_pc' = "c_leave_put"
              /\ h_moving' = LsGetAllItems(c_store[node])
              /\ h_todo' = PutsOf(LsGetAllItems(c_store[node]), c_succ[node])
              /\ h_take' = <<>> /\ h_donors' = <<>>
    /\ c_last' = [NoCall EXCEPT !.op = "leave", !.src = x]
    /\ c_phase' = IF c_phase = "built" THEN "churn" ELSE c_phase
    /\ c_prev' = <<>>
    /\ steps' = steps + 1
    /\ UNCHANGED <<c_emptied, c_snap>>
    /\ HChordOnly

\* Chord.leave after the hand-off loop (chord.py 605-622)
HCLeaveRemove ==
  /\ h_pc = "c_leave_put"
  /\ h_todo = <<>>
  /\ \E ch \in {LeaveRebuild(LeaveRemove(LeaveRelink(Ch, h_call.node, h_call.peer, h_call.start),
                                         h_call.node))} :
       /\ SetCh(ch)
       /\ c_emptied' = (c_emptied \/ ch.nodes = <<>>)
       /\ c_last' = [c_last EXCEPT !.hops = ch.hops]
  /\ h_pc' = "idle"
  /\ UNCHANGED <<c_hung, c_phase, c_snap, c_prev, h_call, h_todo, h_take, h_donors,
                 h_moving, steps>>
  /\ HChordOnly

\* Pastry.join and _bootstrap up to donors (pastry.py 441-457, 245-289)
HPJoinBegin(limit) ==
  \E x \in JoinIds :
    /\ p_phase /= "init"
    /\ h_pc = "idle"
    /\ steps < limit
    /\ (Len(p_nodes) < MaxLive \/ InSeq(x % max_id, p_nodes))
    /\ \E new \in {x % max_id} :
         IF InSeq(new, p_nodes) \/ p_nodes = <<>>
         THEN /\ \E r \in PastryJoin(Pa, x) : SetPa(r.pa)
              /\ h_call' = [NoHandoff EXCEPT !.dht = "pastry", !.op = "join", !.node = new]
              /\ HIdle
         ELSE \E pa0 \in {[_register_node(Pa, new) EXCEPT !.hops = 0]} :
              \E result \in {BootstrapResult(pa0, new, p_nodes[1])} :
              \E cand_order \in SetOrders(BootstrapCandidates(result)) :
              \E pa1 \in {_broadcast_arrival(
                            AddCandidates(BootstrapHarvest(pa0, new, result), new, cand_order),
                            new)} :
              \E donor_order \in SetOrders(BootstrapDonors(pa1, new, result)) :
                /\ SetPa(pa1)
                /\ h_call' = [NoHandoff EXCEPT !.dht = "pastry", !.op = "join", !.node = new]
                /\ h_pc' = "p_request"
                /\ h_donors' = donor_order
                /\ h_todo' = <<>> /\ h_take' = <<>> /\ h_moving' = <<>>
    /\ p_last' = [NoCall EXCEPT !.op = "join", !.src = x]
    /\ p_phase' = IF p_phase = "built" THEN "churn" ELSE p_phase
    /\ p_prev' = <<>>
    /\ steps' = steps + 1
    /\ UNCHANGED <<p_emptied, p_snap>>
    /\ HPastryOnly

\* _request_keys_from: the transfer_keys message and the choice of keys_to_take
\* (pastry.py 308-320); the donor replies with all its items and keeps them
HPRequest ==
  /\ h_pc = "p_request"
  /\ h_donors /= <<>>
  /\ \E z \in {Head(h_donors)} :
     \E keys_to_take \in {KeysToTake(LsGetAllItems(p_store[z]), h_call.node, z)} :
     \E items \in {SelectSeq(LsGetAllItems(p_store[z]),
                             LAMBDA it : InSeq(it[1], keys_to_take))} :
       /\ h_call' = [h_call EXCEPT !.peer = z]
       /\ h_moving' = items
       /\ h_todo' = PutsOf(items, h_call.node)
       /\ h_take' = keys_to_take
  /\ h_donors' = Tail(h_donors)
  /\ h_pc' = "p_join_take"
  /\ UNCHANGED <<pvars, steps>>
  /\ HPastryOnly

\* one storage.put of a hand-off loop of Pastry (pastry.py 321-322, 514-516);
\* Pastry.leave skips the put when best_node is falsy or not live
HPPut ==
  /\ h_pc \in {"p_join_take", "p_leave_put"}
  /\ h_todo /= <<>>
  /\ \E best_node \in {Head(h_todo)[3]} :
       p_store' = IF h_pc = "p_leave_put" /\ ~(Truthy(best_node) /\ InSeq(best_node, p_nodes))
                  THEN p_store
                  ELSE [p_store EXCEPT ![best_node] =
                          LsPut(@, Head(h_todo)[1], Head(h_todo)[2])]
  /\ h_todo' = Tail(h_todo)
  /\ UNCHANGED <<p_nodes, p_leaf_smaller, p_leaf_larger, p_rt, p_reg, p_hops, p_phase,
                 p_emptied, p_snap, p_last, p_prev, h_pc, h_call, h_take, h_donors,
                 h_moving, steps>>
  /\ HPastryOnly

\* _request_keys_from: one delete message to the donor (pastry.py 324-326)
HPDelete ==
  /\ h_pc = "p_join_take"
  /\ h_todo = <<>>
  /\ h_take /= <<>>
  /\ p_store' = [p_store EXCEPT ![h_call.peer] = LsDelete(@, Head(h_take))]
  /\ h_take' = Tail(h_take)
  /\ UNCHANGED <<p_nodes, p_leaf_smaller, p_leaf_larger, p_rt, p_reg, p_hops, p_phase,
                 p_emptied, p_snap, p_last, p_prev, h_pc, h_call, h_todo, h_donors,
                 h_moving, steps>>
  /\ HPastryOnly

\* _request_keys_from returns: the next donor of _bootstrap (pastry.py 291-293)
HPNextDonor ==
  /\ h_pc = "p_join_take"
  /\ h_todo = <<>>
  /\ h_take = <<>>
  /\ h_pc' = "p_request"
  /\ UNCHANGED <<pvars, h_call, h_todo, h_take, h_donors, h_moving, steps>>
  /\ HPastryOnly

\* Pastry.join returns get_stats()['total_hops'] (pastry.py 457)
HPJoinReturn ==
  /\ h_pc = "p_request"
  /\ h_donors = <<>>
  /\ p_last' = [p_last EXCEPT !.hops = p_hops]
  /\ h_pc' = "idle"
  /\ UNCHANGED <<p_nodes, p_leaf_smaller, p_leaf_larger, p_rt, p_store, p_reg, p_hops, p_phase,
                 p_emptied, p_snap, p_prev, h_call, h_todo, h_take, h_donors, h_moving, steps>>
  /\ HPastryOnly

RECURSIVE LeavePuts(_, _, _)
\* the puts of the graceful loop of Pastry.leave, each with its best_node
LeavePuts(pa, node_id, items) ==
  IF items = <<>> THEN <<>>
  ELSE PutsOf(<<Head(items)>>, LeaveBestNode(pa, node_id, hash_key(Head(items)[1], M)))
         \o LeavePuts(pa, node_id, Tail(items))

\* Pastry.leave up to departing.storage.get_all_items() (pastry.py 493-503)
HPLeaveBegin(limit) ==
  \E x \in JoinIds :
    /\ p_phase /= "init"
    /\ h_pc = "idle"
    /\ steps < limit
    /\ \E node \in {x % max_id} :
         IF ~InSeq(node, p_nodes)
         THEN /\ SetPa(PastryLeave(Pa, x, TRUE).pa)
              /\ h_call' = [NoHandoff EXCEPT !.dht = "pastry", !.op = "leave", !.node = node]
              /\ HIdle
         ELSE /\ SetPa([Pa EXCEPT !.hops = 0])
              /\ h_call' = [NoHandoff EXCEPT !.dht = "pastry", !.op = "leave", !.node = node]
              /\ h_pc' = "p_leave_put"
              /\ h_moving' = LsGetAllItems(p_store[node])
              /\ h_todo' = LeavePuts(Pa, node, LsGetAllItems(p_store[node]))
              /\ h_take' = <<>> /\ h_donors' = <<>>
    /\ p_last' = [NoCall EXCEPT !.op = "leave", !.src = x]
    /\ p_phase' = IF p_phase = "built" THEN "churn" ELSE p_phase
    /\ p_prev' = <<>>
    /\ steps' = steps + 1
    /\ UNCHANGED <<p_emptied, p_snap>>
    /\ HPastryOnly

\* Pastry.leave after the hand-off loop (pastry.py 518-532)
HPLeaveRemove ==
  /\ h_pc = "p_leave_put"
  /\ h_todo = <<>>
  /\ \E pa \in {PastryLeaveScrub(PastryLeaveRemove(Pa, h_call.node), h_call.node)} :
       /\ SetPa(pa)
       /\ p_emptied' = (p_emptied \/ pa.nodes = <<>>)
       /\ p_last' = [p_last EXCEPT !.hops = pa.hops]
  /\ h_pc' = "idle"
  /\ UNCHANGED <<p_phase, p_snap, p_prev, h_call, h_todo, h_take, h_donors, h_moving, steps>>
  /\ HPastryOnly

HandoffNext ==
  \/ (p_phase = "init" /\ CBuildAny(MaxChurnItems))
  \/ (c_phase = "init" /\ PBuildAny(MaxChurnItems))
  \/ HCJoinBegin(MaxHandoffs)
  \/ HCTransfer
  \/ HCPut
  \/ HCJoinReturn
  \/ HCLeaveBegin(MaxHandoffs)
  \/ HCLeaveRemove
  \/ HPJoinBegin(MaxHandoffs)
  \/ HPRequest
  \/ HPPut
  \/ HPDelete
  \/ HPNextDonor
  \/ HPJoinReturn
  \/ HPLeaveBegin(MaxHandoffs)
  \/ HPLeaveRemove

SpecHandoff == Init /\ [][HandoffNext]_vars

\* the peers of the DHT the call under way runs on, and their indexes
HLive == IF h_call.dht = "chord" THEN Range(c_nodes) ELSE Range(p_nodes)
HStore == IF h_call.dht = "chord" THEN c_store ELSE p_store

\* some live peer stores every value of the item
StoredLive(item) ==
  \E n \in HLive : SeqBag(item[2]) \sqsubseteq SeqBag(LsGet(HStore[n], item[1]))

\* C30: while a join or a graceful leave of Chord or of Pastry hands keys off,
\* every binding being handed off is stored in the index of at least one live
\* peer at every intermediate step: the receiving peer stores it before the
\* giving peer removes it.
C30_CopyThenDelete ==
  h_pc /= "idle" => \A i \in 1 .. Len(h_moving) : StoredLive(h_moving[i])

\* the owners that routing for key id t resolves from the live source peers
ChordOwnersOf(t) == {Chord_find_successor(Ch, t, s).owner : s \in LiveIds}
PastryOwnersOf(t) == {_route(Pa, s, t, {}, p_hops, <<s>>).owner : s \in PLiveIds}

\* C31: in every state reached from build by graceful joins and leaves (client
\* operations leave the routing state alone), for Chord and for Pastry and
\* for every key id, routing started at any two live source peers resolves
\* the same owner peer.
C31_OwnerSourceIndependent ==
  /\ ChurnOnly => \A t \in Ids : Cardinality(ChordOwnersOf(t)) = 1
  /\ PChurnOnly => \A t \in Ids : Cardinality(PastryOwnersOf(t)) = 1

\* C32: Chord.leave(id, graceful=True) returns after finitely many steps on
\* every reachable ring, the ring of one peer that is its own successor and
\* stores at least one binding included: no call is left that never returned.
C32_ChordLeaveTerminates == ~c_hung

(***************************************************************************)
(* Chord maintenance: stabilize, notify, fix_finger, stabilize_all         *)
(***************************************************************************)
MaxRounds == 2         \* rounds passed to stabilize_all
MaxMaint == 3
MaxTreeLoad == 10
MaxTreeEdits == 3
MaxTreeValues == 2
MaxBusCalls == 3
MaxRequests == 3          \* joins, leaves and stabilize_all calls in one behaviour

\* ChordNode._notify at peer n
_notify(ch, n, potential_predecessor) ==
  IF potential_predecessor = None THEN ch
  ELSE IF ch.pred[n] = None
  THEN [ch EXCEPT !.pred[n] = potential_predecessor]
  ELSE IF _in_range(potential_predecessor, ch.pred[n], n, FALSE, FALSE)
  THEN [ch EXCEPT !.pred[n] = potential_predecessor]
  ELSE ch

\* ChordNode.stabilize: x has been read from the successor (get_predecessor,
\* not counted); the successor is updated and then notified (not counted)
StabilizeWith(ch, n, x) ==
  LET ch1 == IF /\ x /= None /\ x /= n /\ x /= ch.succ[n]
                /\ _in_range(x, n, ch.succ[n], FALSE, FALSE)
             THEN [ch EXCEPT !.succ[n] = x, !.finger[n][0] = x]
             ELSE ch
  IN  [_notify(ch1, ch1.succ[n], n) EXCEPT !.hops = NetSend(NetSend(ch.hops, FALSE), FALSE)]

\* ChordNode.stabilize at peer n
stabilize(ch, n) ==
  IF ch.succ[n] = None THEN ch ELSE StabilizeWith(ch, n, ch.pred[ch.succ[n]])

\* a fix_finger that keeps the successor in sync with every finger it fixes
FixFingerWith_syncing(ch, n, i, r) ==
  [ch EXCEPT !.hops = r.hops, !.finger[n][i] = r.owner, !.succ[n] = r.owner]

\* ChordNode.fix_finger once the find_successor message has returned r
FixFingerWith(ch, n, i, r) ==
  [ch EXCEPT !.hops = r.hops,
             !.finger[n][i] = r.owner,
             !.succ[n] = IF i = 0 THEN r.owner ELSE @]

\* ChordNode.fix_finger at peer n: the find_successor message goes to n itself
\* with count_hop=False; what the handler forwards goes through network.send(msg)
fix_finger(ch, n, i) ==
  IF i < 0 \/ i >= M THEN ch
  ELSE FixFingerWith(ch, n, i,
                     _find_successor_handler(ch, n, FingerStart(n, i),
                                             NetSend(ch.hops, FALSE), <<n>>))

RECURSIVE StabilizeEach(_, _)
\* for node in self.nodes.values(): node.stabilize()
StabilizeEach(ch, todo) ==
  IF todo = <<>> THEN ch ELSE StabilizeEach(stabilize(ch, Head(todo)), Tail(todo))

RECURSIVE StabilizeRounds(_, _)
StabilizeRounds(ch, rounds) ==
  IF rounds = 0 THEN ch ELSE StabilizeRounds(StabilizeEach(ch, ch.nodes), rounds - 1)

RECURSIVE FixFingersOf(_, _, _)
\* for i in range(self.m): node.fix_finger(i)
FixFingersOf(ch, n, i) ==
  IF i >= M THEN ch ELSE FixFingersOf(fix_finger(ch, n, i), n, i + 1)

RECURSIVE FixEach(_, _)
FixEach(ch, todo) ==
  IF todo = <<>> THEN ch ELSE FixEach(FixFingersOf(ch, Head(todo), 0), Tail(todo))

\* Chord.stabilize_all
stabilize_all(ch, rounds) == FixEach(StabilizeRounds(ch, rounds), ch.nodes)

\* stabilize_all(rounds) on the ring
CStabilizeAll(limit) ==
  \E rounds \in 1 .. MaxRounds :
    /\ c_phase /= "init"
    /\ ~c_hung
    /\ c_nodes /= <<>>
    /\ steps < limit
    /\ \E ch \in {stabilize_all(Ch, rounds)} :
         /\ SetCh(ch)
         /\ c_last' = [NoCall EXCEPT !.op = "stabilize_all", !.src = rounds, !.hops = ch.hops]
    /\ c_prev' = <<>>
    /\ steps' = steps + 1
    /\ UNCHANGED <<c_hung, c_phase, c_emptied, c_snap>>
    /\ ChordOnly

CMaintNext == \/ CBuildRing
              \/ CJoinOf(MaxMaint, Ids, max_id)
              \/ CLeaveOf(MaxMaint, Ids)
              \/ CStabilizeAll(MaxMaint)

SpecChordMaint == Init /\ [][CMaintNext]_vars

\* this step is a call of stabilize_all
StabilizeStep == c_last'.op = "stabilize_all" /\ steps' = steps + 1

\* C33: stabilize_all (stabilize, notify and fix_finger on every peer) leaves
\* the transport's total_hops unchanged on any ring, the find_successor
\* messages that fix_finger causes to be forwarded between peers included.
C33_MaintenanceCountsNoHops ==
  [][StabilizeStep => c_hops' = c_hops]_vars

\* every peer's successor, predecessor and finger entries are the ones the
\* live id set calls for
RingCorrect ==
  \A n \in LiveIds :
    /\ c_succ[n] = successor_in_sorted((n + 1) % max_id, LiveIds)
    /\ c_pred[n] = predecessor_in_sorted(n, LiveIds)
    /\ \A i \in 0 .. (M - 1) :
         c_finger[n][i] = successor_in_sorted(FingerStart(n, i), LiveIds)

\* C34: on a ring where every peer's successor, predecessor and finger
\* entries are correct for the live id set, stabilize_all (any number of
\* rounds) changes no peer's successor, predecessor or finger entry.
C34_StabilizeFixedPoint ==
  [][(StabilizeStep /\ RingCorrect)
       => (c_succ' = c_succ /\ c_pred' = c_pred /\ c_finger' = c_finger)]_vars

\* stabilize_all has run MaxRounds rounds on a correct ring of MinRing peers
\* or more, and a find_successor message of fix_finger was forwarded
C34_Witness ==
  /\ c_last.op = "stabilize_all"
  /\ c_last.src = MaxRounds
  /\ RingCorrect
  /\ Len(c_nodes) >= MinRing
  /\ c_last.hops >= 1

\* C35: for every target id and every routing state in which successor is
\* set (a successor whose id is 0 included), ChordNode.find_successor(target)
\* returns the same peer as _find_successor_handler(target) at the same peer.
C35_EntryPointsAgree ==
  (c_phase /= "init" /\ ~c_hung)
    => \A n \in LiveIds, target_id \in Ids :
         c_succ[n] /= None
           => NodeFindSuccessor(Ch, n, target_id,
                                _closest_preceding_node(Ch, n, target_id)).owner
                = _find_successor_handler(Ch, n, target_id, c_hops, <<n>>).owner

(***************************************************************************)
(* Pastry leaf-range test                                                  *)
(***************************************************************************)
\* the ids met walking clockwise from lo through n to hi, lo and hi included
ArcThrough(lo, n, hi, ring) ==
  {(lo + d) % ring : d \in 0 .. (((n - lo) % ring) + ((hi - n) % ring))}

\* the range test of peer n agrees with the arc for every target id
LeafRangeIsArc(smaller, larger, n, ring) ==
  \A target \in 0 .. (ring - 1) :
    LeafRangeHas(smaller, larger, n, target)
      <=> \/ smaller = <<>> /\ larger = <<>>
          \/ target \in ArcThrough(LastOr(smaller, n), n, LastOr(larger, n), ring)

\* C37: for every peer whose leaf halves satisfy the leaf-set invariant and
\* every target id, _is_in_leaf_set_range(peer, target) is true exactly when
\* target lies on the clockwise arc from the last entry of leaf_smaller (self
\* if that half is empty) through self to the last entry of leaf_larger (self
\* if empty), endpoints included, also when the arc straddles id 0; it is
\* true for every target when both halves are empty.
C37_LeafRangeIsArc ==
  /\ \A n \in PLiveIds : LeafRangeIsArc(p_leaf_smaller[n], p_leaf_larger[n], n, max_id)
  /\ g_n /= None => LeafRangeIsArc(g_smaller, g_larger, g_n, LeafRing)

\* a peer with entries in both halves whose arc straddles id 0 and leaves
\* some ids out
C37_Witness ==
  /\ g_n /= None
  /\ g_smaller /= <<>> /\ g_larger /= <<>>
  /\ LastOr(g_smaller, g_n) > LastOr(g_larger, g_n)
  /\ \E target \in 0 .. (LeafRing - 1) : ~LeafRangeHas(g_smaller, g_larger, g_n, target)


(***************************************************************************)
(* ChordNode._in_range on its own: every id triple and flag pair           *)
(***************************************************************************)
InRangeInputs ==
  [fn : {"_in_range"}, val : Ids, start : Ids, end : Ids,
   inclusive_start : BOOLEAN, inclusive_end : BOOLEAN]

InRangeInit ==
  /\ InitButQ
  /\ q_in \in InRangeInputs
  /\ q_out = <<>>

QOnly == UNCHANGED <<cvars, pvars, tvars, nvars, dvars, lvars, kvars, fvars, gvars, hvars,
                     bvars, xvars, svars, steps>>

\* one call self._in_range(val, start, end, inclusive_start, inclusive_end)
QInRange ==
  /\ q_in.fn = "_in_range"
  /\ q_out = <<>>
  /\ q_out' = <<_in_range(q_in.val, q_in.start, q_in.end,
                          q_in.inclusive_start, q_in.inclusive_end)>>
  /\ UNCHANGED q_in
  /\ QOnly

SpecInRange == InRangeInit /\ [][QInRange]_vars

\* the ids strictly between lo and hi walking clockwise from lo
ArcInside(lo, hi) == {(lo + d) % max_id : d \in 1 .. (((hi - lo) % max_id) - 1)}

\* the arc from lo to hi with the endpoints the flags include
ArcFlagged(lo, hi, inc_lo, inc_hi) ==
  ArcInside(lo, hi) \cup (IF inc_lo THEN {lo} ELSE {}) \cup (IF inc_hi THEN {hi} ELSE {})

\* C36: for all ids v, lo, hi and all four flag pairs, _in_range(v, lo, hi,
\* inc_lo, inc_hi) is true exactly when v lies on the arc walked clockwise
\* from lo to hi with the endpoints included as flagged (wrapping past id 0
\* when lo > hi); when lo = hi the result is inc_lo OR inc_hi for every v.
C36_InRangeIsArc ==
  (q_in.fn = "_in_range" /\ q_out /= <<>>) =>
    q_out[1] = IF q_in.start = q_in.end
               THEN q_in.inclusive_start \/ q_in.inclusive_end
               ELSE q_in.val \in ArcFlagged(q_in.start, q_in.end,
                                            q_in.inclusive_start, q_in.inclusive_end)

\* an arc that wraps past id 0 and a value beyond the wrap that the call accepts
C36_Witness ==
  /\ q_in.fn = "_in_range" /\ q_out = <<TRUE>>
  /\ q_in.start > q_in.end
  /\ q_in.val < q_in.end
  /\ ~q_in.inclusive_start /\ ~q_in.inclusive_end


(***************************************************************************)
(* A BPlusTree of its own (local_index.py): keys loaded in ascending order *)
(* with a bounded number of other inserts and deletes in between.  b_ref   *)
(* follows the calls: insert appends, delete(key) empties the list,        *)
(* delete(key, value) drops the first occurrence.                          *)
(***************************************************************************)
TreeKeysSeq == SubSeq(KeysSorted, 1, MaxTreeLoad)
TreeKeys == Range(TreeKeysSeq)

BOnly == UNCHANGED <<cvars, pvars, tvars, nvars, dvars, lvars, kvars, fvars, gvars, hvars,
                     qvars, xvars, svars, steps>>

\* tree.insert(key, "A") for the next key of the ascending load
BLoad ==
  /\ b_calls.load < MaxTreeLoad
  /\ \E key \in {TreeKeysSeq[b_calls.load + 1]} :
       /\ Len(b_ref[key]) < MaxTreeValues
       /\ b_tree' = BtInsert(b_tree, key, "A")
       /\ b_ref' = [b_ref EXCEPT ![key] = Append(@, "A")]
  /\ b_last' = "insert"
  /\ b_calls' = [b_calls EXCEPT !.load = @ + 1]
  /\ BOnly

\* tree.insert(key, value) for any key, present or not
BInsert ==
  /\ b_calls.edit < MaxTreeEdits
  /\ \E key \in TreeKeys, value \in Values :
       /\ Len(b_ref[key]) < MaxTreeValues
       /\ b_tree' = BtInsert(b_tree, key, value)
       /\ b_ref' = [b_ref EXCEPT ![key] = Append(@, value)]
  /\ b_last' = "insert"
  /\ b_calls' = [b_calls EXCEPT !.edit = @ + 1]
  /\ BOnly

\* tree.delete(key)
BDelete ==
  /\ b_calls.edit < MaxTreeEdits
  /\ \E key \in TreeKeys :
       /\ b_tree' = BtDelete(b_tree, key)
       /\ b_ref' = [b_ref EXCEPT ![key] = <<>>]
  /\ b_last' = "delete"
  /\ b_calls' = [b_calls EXCEPT !.edit = @ + 1]
  /\ BOnly

\* tree.delete(key, value)
BDeleteValue ==
  /\ b_calls.edit < MaxTreeEdits
  /\ \E key \in TreeKeys, value \in Values :
       /\ b_tree' = BtDeleteValue(b_tree, key, value)
       /\ b_ref' = [b_ref EXCEPT ![key] = RemoveFirst(@, value)]
  /\ b_last' = "delete"
  /\ b_calls' = [b_calls EXCEPT !.edit = @ + 1]
  /\ BOnly

TreeNext == BLoad \/ BInsert \/ BDelete \/ BDeleteValue

SpecTree == Init /\ [][TreeNext]_vars

\* the keys that have at least one value by the calls made
KeysWithValues == {k \in TreeKeys : b_ref[k] /= <<>>}

\* keys lists exactly the set S, each key once, in ascending order
AscendingOf(keys, S) ==
  /\ Range(keys) = S
  /\ \A i, j \in 1 .. Len(keys) : i < j => KeyLt(keys[i], keys[j])

\* C38: after any sequence of insert and delete calls (deletes that empty a
\* leaf, inserts that split leaves and internal nodes included)
\* get_all_keys() returns exactly the keys that have at least one value, each
\* once and in ascending order, and search(k) returns the values of every
\* such key.
C38_TreeEnumeration ==
  b_last /= "none" =>
    /\ AscendingOf(BtGetAllKeys(b_tree), KeysWithValues)
    /\ \A k \in TreeKeys : search(b_tree, k) = b_ref[k]

\* the leaves the chain walks from the leftmost one
RECURSIVE LeafChain(_, _)
LeafChain(t, n) == IF n = 0 THEN <<>> ELSE <<n>> \o LeafChain(t, t.nodes[n].next_leaf)

\* an internal node was split (the root has internal children), a delete
\* has emptied a leaf of the chain, and keys remain
C38_Witness ==
  /\ b_last = "delete"
  /\ ~b_tree.nodes[b_tree.root].is_leaf
  /\ ~b_tree.nodes[b_tree.nodes[b_tree.root].children[1]].is_leaf
  /\ \E n \in Range(LeafChain(b_tree, LeftmostLeaf(b_tree, b_tree.root))) :
       b_tree.nodes[n].keys = <<>>
  /\ KeysWithValues /= {}


(***************************************************************************)
(* NetworkSimulator used by several threads, one statement at a time       *)
(* (network.py).  A call in progress is a frame [op, arg, count_hop, pc]:  *)
(*   pc "enter"   : at `with self.lock:`, the lock not yet acquired        *)
(*   pc "locked"  : inside the with-block, holding the lock                *)
(*   pc "handler" : send only, inside handler(msg)                         *)
(* A handler may call the simulator again (a frame on top of its own), or  *)
(* return.  self.lock is a threading.Lock: not re-entrant, so a thread     *)
(* that holds it and asks for it again waits for ever.  message_count      *)
(* moves with total_hops and is left out.                                  *)
(***************************************************************************)
BusIds == {0}
BusOps == {"send", "register_node", "unregister_node", "reset_counters", "get_stats"}

XOnly == UNCHANGED <<cvars, pvars, tvars, nvars, dvars, lvars, kvars, fvars, gvars, hvars,
                     qvars, bvars, svars, steps>>

NoFrame == [op |-> "none", arg |-> 0, count_hop |-> FALSE, pc |-> "none"]
\* the innermost call in progress
Top(stack) == IF stack = <<>> THEN NoFrame ELSE stack[Len(stack)]
Pop(stack) == SubSeq(stack, 1, Len(stack) - 1)
SetTop(stack, frame) == [stack EXCEPT ![Len(stack)] = frame]

\* handler(msg) called inside the with-block
LockAtHandler_held(t) == t

\* who holds self.lock when send calls handler(msg): the with-block is over
LockAtHandler(t) == None

\* a thread with no call in progress, or a handler, calls the simulator
XCall(t) ==
  /\ x_calls[t] < MaxBusCalls
  /\ x_stack[t] = <<>> \/ Top(x_stack[t]).pc = "handler"
  /\ \E op \in BusOps, arg \in BusIds, count_hop \in BOOLEAN :
       /\ op \in {"reset_counters", "get_stats"} => arg = 0
       /\ op /= "send" => count_hop
       /\ x_stack' = [x_stack EXCEPT ![t] =
                        Append(@, [op |-> op, arg |-> arg, count_hop |-> count_hop,
                                   pc |-> "enter"])]
  /\ x_calls' = [x_calls EXCEPT ![t] = @ + 1]
  /\ UNCHANGED <<x_nodes, x_hops, x_lock>>
  /\ XOnly

\* `with self.lock:` acquires the lock once it is free
XAcquire(t) ==
  /\ x_stack[t] /= <<>>
  /\ Top(x_stack[t]).pc = "enter"
  /\ x_lock = None
  /\ x_lock' = t
  /\ x_stack' = [x_stack EXCEPT ![t] = SetTop(@, [Top(@) EXCEPT !.pc = "locked"])]
  /\ UNCHANGED <<x_nodes, x_hops, x_calls>>
  /\ XOnly

\* send, the with-block: ValueError for an unknown destination (the block is
\* left, the call is over), else the hop is counted and handler(msg) is called
XSend(t) ==
  /\ x_stack[t] /= <<>>
  /\ Top(x_stack[t]).pc = "locked" /\ Top(x_stack[t]).op = "send"
  /\ x_lock = t
  /\ IF Top(x_stack[t]).arg \notin x_nodes
     THEN /\ x_lock' = None
          /\ x_stack' = [x_stack EXCEPT ![t] = Pop(@)]
          /\ UNCHANGED x_hops
     ELSE /\ x_lock' = LockAtHandler(t)
          /\ x_stack' = [x_stack EXCEPT ![t] = SetTop(@, [Top(@) EXCEPT !.pc = "handler"])]
          /\ x_hops' = IF Top(x_stack[t]).count_hop THEN x_hops + 1 ELSE x_hops
  /\ UNCHANGED <<x_nodes, x_calls>>
  /\ XOnly

\* register_node, unregister_node, reset_counters, get_stats: the with-block
\* is the whole body
XLocked(t) ==
  /\ x_stack[t] /= <<>>
  /\ Top(x_stack[t]).pc = "locked" /\ Top(x_stack[t]).op /= "send"
  /\ x_lock = t
  /\ x_nodes' = CASE Top(x_stack[t]).op = "register_node" -> x_nodes \cup {Top(x_stack[t]).arg}
                  [] Top(x_stack[t]).op = "unregister_node" -> x_nodes \ {Top(x_stack[t]).arg}
                  [] OTHER -> x_nodes
  /\ x_hops' = IF Top(x_stack[t]).op = "reset_counters" THEN 0 ELSE x_hops
  /\ x_lock' = None
  /\ x_stack' = [x_stack EXCEPT ![t] = Pop(@)]
  /\ UNCHANGED x_calls
  /\ XOnly

\* handler(msg) returns (or raises), and send with it
XReturn(t) ==
  /\ x_stack[t] /= <<>>
  /\ Top(x_stack[t]).pc = "handler"
  /\ x_stack' = [x_stack EXCEPT ![t] = Pop(@)]
  /\ UNCHANGED <<x_nodes, x_hops, x_lock, x_calls>>
  /\ XOnly

\* what a thread does by itself once a call is in progress
XRun(t) == XAcquire(t) \/ XSend(t) \/ XLocked(t) \/ XReturn(t)

BusNext == \E t \in BusThreads : XCall(t) \/ XRun(t)

SpecBus == Init /\ [][BusNext]_vars

\* every thread keeps running: the interpreter schedules each thread again
\* and again, and a handler makes finitely many calls before it returns
SpecBusFair == SpecBus /\ \A t \in BusThreads : WF_vars(XRun(t))

\* thread t is inside a handler that a send called
InHandler(t) == \E i \in 1 .. Len(x_stack[t]) : x_stack[t][i].pc = "handler"

\* no thread holds the lock in a frame below its innermost call
LockOnlyInnermost ==
  \A t \in BusThreads :
    /\ \A i \in 1 .. (Len(x_stack[t]) - 1) : x_stack[t][i].pc = "handler"
    /\ x_lock = t <=> (x_stack[t] /= <<>> /\ Top(x_stack[t]).pc = "locked")

\* C39: NetworkSimulator never holds its lock while a handler runs, so a
\* handler that itself calls send, register_node, unregister_node,
\* reset_counters or get_stats always acquires the lock, and every finite
\* chain of nested forwards completes: every call a thread has started
\* returns.
C39_BusNoDeadlock ==
  /\ [](LockOnlyInnermost)
  /\ \A t \in BusThreads : (x_stack[t] /= <<>>) ~> (x_stack[t] = <<>>)

\* a handler's own call holds the lock while the other thread waits for it
C39_Witness ==
  \E t, u \in BusThreads :
    /\ t /= u
    /\ x_lock = t
    /\ Len(x_stack[t]) >= 2
    /\ InHandler(t)
    /\ x_stack[u] /= <<>> /\ Top(x_stack[u]).pc = "enter"


(***************************************************************************)
(* DHTNodeServer (node_server.py): app.run(..., threaded=True) gives every *)
(* request a thread of its own, and the /message route calls               *)
(* self.node.handle_message(msg) with no lock around it.  A thread handles *)
(* an insert in the statements of LocalStorage.put, a lookup in one step.  *)
(*   pc "check"  : at `if key not in self.data`                            *)
(*   pc "create" : at `self.data[key] = []`                                *)
(*   pc "append" : at `self.data[key].append(value)`                       *)
(*   pc "tree"   : at `self.btree.insert(key, value)`                      *)
(*   pc "get"    : at `return self.storage.get(msg.key)`                   *)
(***************************************************************************)
SOnly == UNCHANGED <<cvars, pvars, tvars, nvars, dvars, lvars, kvars, fvars, gvars, hvars,
                     qvars, bvars, xvars>>

\* POST /message arrives and its thread enters handle_message
SAccept(t) ==
  /\ steps < MaxRequests
  /\ s_pc[t] = "idle"
  /\ \E op \in {"insert", "lookup"}, key \in Keys, value \in Values :
       /\ op = "lookup" => value = "A"
       /\ s_req' = [s_req EXCEPT ![t] = [op |-> op, key |-> key, value |-> value]]
       /\ s_pc' = [s_pc EXCEPT ![t] = IF op = "insert" THEN "check" ELSE "get"]
  /\ steps' = steps + 1
  /\ UNCHANGED s_index
  /\ SOnly

\* if key not in self.data
SCheck(t) ==
  /\ s_pc[t] = "check"
  /\ s_pc' = [s_pc EXCEPT ![t] = IF DataHas(s_index, s_req[t].key) THEN "append" ELSE "create"]
  /\ UNCHANGED <<s_index, s_req, steps>>
  /\ SOnly

\* self.data[key] = []
SCreate(t) ==
  /\ s_pc[t] = "create"
  /\ s_index' = DataSet(s_index, s_req[t].key, <<>>)
  /\ s_pc' = [s_pc EXCEPT ![t] = "append"]
  /\ UNCHANGED <<s_req, steps>>
  /\ SOnly

\* self.data[key].append(value)
SAppend(t) ==
  /\ s_pc[t] = "append"
  /\ s_index' = DataAppend(s_index, s_req[t].key, s_req[t].value)
  /\ s_pc' = [s_pc EXCEPT ![t] = "tree"]
  /\ UNCHANGED <<s_req, steps>>
  /\ SOnly

\* self.btree.insert(key, value), and the response goes out
STree(t) ==
  /\ s_pc[t] = "tree"
  /\ s_index' = TreeAppend(s_index, s_req[t].key, s_req[t].value)
  /\ s_pc' = [s_pc EXCEPT ![t] = "idle"]
  /\ UNCHANGED <<s_req, steps>>
  /\ SOnly

\* return self.storage.get(msg.key), and the response goes out
SGet(t) ==
  /\ s_pc[t] = "get"
  /\ s_pc' = [s_pc EXCEPT ![t] = "idle"]
  /\ UNCHANGED <<s_index, s_req, steps>>
  /\ SOnly

ServerNext ==
  \E t \in ServerThreads :
    SAccept(t) \/ SCheck(t) \/ SCreate(t) \/ SAppend(t) \/ STree(t) \/ SGet(t)

SpecServer == Init /\ [][ServerNext]_vars

\* the threads inside handle_message of the peer
InHandle == {t \in ServerThreads : s_pc[t] /= "idle"}

\* C40: when a node server handles requests on several threads, no two
\* handler invocations that read or write the same peer's routing state or
\* local index execute at the same time.
C40_HandlersSerialized == Cardinality(InHandle) <= 1

====
